---- MODULE Spec2Model ----
(***************************************************************************)
(* A model of the Raft consensus core of RedisLess (redisless/raft):       *)
(* the in-memory log (log/memory.rs), the log state wrapper (log/mod.rs),  *)
(* the consensus state machine (core.rs) and the node facade (node.rs).    *)
(*                                                                         *)
(* Option<T> is modelled as a set with at most one element: None is {} and *)
(* Some(x) is {x}.  Bytes are sequences of small integers.  Every node is  *)
(* a record holding the fields of core.rs `State`; the network is the set  *)
(* of every message ever emitted, from which any message can be delivered  *)
(* at any time, any number of times, or never.                             *)
(***************************************************************************)
EXTENDS Integers, Sequences, FiniteSets, TLC

VARIABLES
    node,       \* node id -> the node's State (core.rs)
    msgs,       \* the messages emitted so far, each with its sender
    panicked,   \* node id -> "none", or the panic that aborted the node
    ret,        \* the last call made on a node and what it returned
    taken,      \* node id -> the entries take_committed has yielded, in order
    elected,    \* the <<term, node>> pairs of every transition to Leader
    committed,  \* the <<index, entry, term>> of every entry a Leader committed
    consumed,   \* the messages delivered, where a message is delivered once
    delivered,  \* the number of messages delivered so far
    resets,     \* the number of reset_peer calls made so far
    limits,     \* the bounds of the scenario, fixed by the initial state
    net         \* the connectivity of the group the tests run (tests/common.rs)

vars ==
    <<node, msgs, panicked, ret, taken, elected, committed, consumed, delivered,
      resets, limits, net>>

-----------------------------------------------------------------------------
(* Bounds of the model *)

MaxTerm == 2            \* no election is started at or beyond this term
MaxElections == 2       \* no more elections than this are started in the group
MaxLogLen == 2          \* no client append is made on a log this long
MaxDeliveries == 6      \* no more messages than this are delivered

\* the same for the specification of the low-level calls
ApiMaxTerm == 2
ApiMaxElections == 2
ApiMaxLogLen == 2
ApiMaxDeliveries == 3
ApiMaxResets == 1       \* no more reset_peer calls than this are made

\* the same for the specification of a single node with a bounded log
BoundedMaxLogLen == 4
BoundedCapacity == 3    \* the data_capacity of the bounded log, in bytes
\* the same for the specification of a group of two nodes on a network that
\* delivers no message twice
OnceMaxTerm == 3
OnceMaxElections == 3
OnceMaxDeliveries == 7
\* the deliveries in the specification of a group of two nodes with a small
\* replication chunk
ProbeMaxDeliveries == 8
\* the deliveries in the specification of a group of two nodes in which the
\* leader changes while an entry is replicated
CommitMaxDeliveries == 10
\* the same for the specification of a group of two nodes whose leader rewinds
\* next_idx after a rejected request
RewindMaxDeliveries == 8
\* the same for the specification of a group of two nodes whose election timeout
\* is several ticks long
DuplicateMaxLogLen == 1
DuplicateMaxDeliveries == 10
TimerTimeoutTicks == 3  \* the election_timeout_ticks of its configuration
TimerMaxTerm == 2
TimerMaxElections == 2
TimerMaxDeliveries == 4
\* the same for the specification of a group of two nodes whose leader
\* replicates in chunks of ChunkSize bytes
ChunkSize == 10
ChunkMaxTerm == 1
ChunkMaxElections == 1
ChunkMaxLogLen == 4
ChunkMaxDeliveries == 6

OnceNodes == {1, 2}

\* the longest log in the specification of a group of one node
SingleMaxLogLen == 4
\* the same for the specification of a group of five nodes holding elections
VoteMaxTerm == 1
VoteMaxElections == 2
VoteMaxDeliveries == 5

\* the same for the group the tests run, which delivers every message within the
\* tick: its configuration (election timeout, heartbeat interval), the highest
\* term, the longest log and the number of partitions
GroupElectionTimeoutTicks == 2
GroupHeartbeatIntervalTicks == GroupElectionTimeoutTicks - 1
GroupMaxTerm == 2
GroupMaxLogLen == 3
GroupMaxPartitions == 1

\* the same for a log driven through the Log trait alone: its data capacity when
\* bounded, the highest index, and the most data ever appended (data_len)
LogCapacity == 3
LogMaxIndex == 4
LogMaxDataLen == 5

\* the entries appended to it
LogEntries ==
    {[term |-> 1, data |-> <<>>], [term |-> 1, data |-> <<1>>],
     [term |-> 2, data |-> <<2, 2>>]}

VoteNodes == {1, 2, 3, 4, 5}
\* an entry of 5 bytes and one of 11, which exceeds ChunkSize by itself
ChunkDataValues == {<<1>>, <<7, 7, 7, 7, 7, 7, 7>>}
BoundedDataValues == {<<1>>, <<2, 2>>}  \* entries of one and of two bytes

Nodes == {1, 2, 3}
UnknownSenders == {0}
DataValues == {<<1>>}

\* next_u32() % k takes every value of 0..k-1, and no other
RandomValues(config) ==
    0..(IF config.election_timeout_ticks = 0 THEN 0
        ELSE config.election_timeout_ticks - 1)

None == {}
Some(x) == {x}
TheOne(o) == CHOOSE x \in o : TRUE

Min(a, b) == IF a <= b THEN a ELSE b
Max(a, b) == IF a >= b THEN a ELSE b
SatSub(a, b) == IF a >= b THEN a - b ELSE 0

\* let x = ...; F(x): the value is computed once and used by F
Let(x, F(_)) == F(x)

-----------------------------------------------------------------------------
(* log/memory.rs: InMemoryLog *)

UnboundedCapacity == 2147483647

with_capacity(data_capacity) ==
    [entries |-> <<>>, prev_log_idx |-> 0, prev_log_term |-> 0,
     last_taken |-> 0, data_len |-> 0, data_capacity |-> data_capacity]

new_unbounded == with_capacity(UnboundedCapacity)

\* Option<usize>: the position of log_idx in `entries`, counted from 0
entry_index(l, log_idx) ==
    IF log_idx - l.prev_log_idx - 1 >= 0
    THEN Some(log_idx - l.prev_log_idx - 1) ELSE None

pop_front(l) ==
    IF entry_index(l, l.last_taken) = None \/ l.entries = <<>>
    THEN [ok |-> FALSE, log |-> l]
    ELSE [ok |-> TRUE,
          log |-> [l EXCEPT !.entries = Tail(l.entries),
                            !.prev_log_idx = l.prev_log_idx + 1,
                            !.prev_log_term = Head(l.entries).term]]

RECURSIVE append_loop(_, _)
append_loop(l, log_entry) ==
    IF l.data_len + Len(log_entry.data) <= l.data_capacity
    THEN [ok |-> TRUE,
          log |-> [l EXCEPT !.data_len = l.data_len + Len(log_entry.data),
                            !.entries = Append(l.entries, log_entry)]]
    ELSE LET p == pop_front(l)
         IN IF p.ok THEN append_loop(p.log, log_entry)
            ELSE [ok |-> FALSE, log |-> p.log]

mem_append(l, log_entry) ==
    IF Len(log_entry.data) > l.data_capacity
    THEN [ok |-> FALSE, log |-> l]
    ELSE append_loop(l, log_entry)

\* InMemoryLog::cancel_from that keeps the entry at from_log_idx
mem_cancel_from_keep(l, from_log_idx) ==
    LET from_index == entry_index(l, from_log_idx)
    IN IF from_index = None \/ Len(l.entries) - TheOne(from_index) <= 0
       THEN [ok |-> FALSE, log |-> l, cancelled_len |-> 0]
       ELSE [ok |-> TRUE,
             log |-> [l EXCEPT !.entries = SubSeq(l.entries, 1, TheOne(from_index) + 1)],
             cancelled_len |-> Len(l.entries) - TheOne(from_index)]

\* InMemoryLog::cancel_from that reports success and removes nothing
mem_cancel_from_nothing(l, from_log_idx) ==
    [ok |-> TRUE, log |-> l, cancelled_len |-> 0]

mem_cancel_from(l, from_log_idx) ==
    LET from_index == entry_index(l, from_log_idx)
    IN IF from_index = None \/ Len(l.entries) - TheOne(from_index) <= 0
       THEN [ok |-> FALSE, log |-> l, cancelled_len |-> 0]
       ELSE [ok |-> TRUE,
             log |-> [l EXCEPT !.entries = SubSeq(l.entries, 1, TheOne(from_index))],
             cancelled_len |-> Len(l.entries) - TheOne(from_index)]

entry_len(log_entry) == 4 + Len(log_entry.data)

mem_get(l, log_idx) ==
    LET index == entry_index(l, log_idx)
    IN IF index # None /\ TheOne(index) < Len(l.entries)
       THEN Some(l.entries[TheOne(index) + 1]) ELSE None

mem_get_term(l, log_idx) ==
    IF log_idx # l.prev_log_idx
    THEN {e.term : e \in mem_get(l, log_idx)}
    ELSE Some(l.prev_log_term)

mem_last_index(l) == l.prev_log_idx + Len(l.entries)

mem_last_term(l) ==
    IF l.entries = <<>> THEN l.prev_log_term
    ELSE l.entries[Len(l.entries)].term

mem_take_next(l) ==
    LET log_idx == l.last_taken + 1
        log_entry == mem_get(l, log_idx)
    IN IF log_entry = None THEN [entry |-> None, log |-> l]
       ELSE [entry |-> log_entry, log |-> [l EXCEPT !.last_taken = log_idx]]

-----------------------------------------------------------------------------
(* log/mod.rs: LogState, a Log with the commit index *)

LogState_new(log) == [log |-> log, commit_idx |-> 0]

prev_index(ls) == ls.log.prev_log_idx
prev_term(ls) == ls.log.prev_log_term
last_index(ls) == mem_last_index(ls.log)
last_term(ls) == mem_last_term(ls.log)

get(ls, index) == IF index = 0 THEN None ELSE mem_get(ls.log, index)

get_term(ls, index) ==
    IF index = prev_index(ls) THEN Some(prev_term(ls))
    ELSE IF index = 0 THEN None
    ELSE mem_get_term(ls.log, index)

get_len(ls, index) == {entry_len(e) : e \in mem_get(ls.log, index)}

\* CommittedIter::next without the comparison with commit_idx
committed_next_unchecked(ls) ==
    IF TRUE
    THEN LET t == mem_take_next(ls.log)
         IN [entry |-> t.entry, ls |-> [ls EXCEPT !.log = t.log]]
    ELSE [entry |-> None, ls |-> ls]

\* CommittedIter::next
committed_next(ls) ==
    IF ls.log.last_taken < ls.commit_idx
    THEN LET t == mem_take_next(ls.log)
         IN [entry |-> t.entry, ls |-> [ls EXCEPT !.log = t.log]]
    ELSE [entry |-> None, ls |-> ls]

-----------------------------------------------------------------------------
(* message.rs: messages and destinations *)

Broadcast == [kind |-> "Broadcast"]
To(peer) == [kind |-> "To", id |-> peer]

VoteRequestMsg(term, last_log_idx, last_log_term) ==
    [term |-> term, rpc |-> "VoteRequest",
     last_log_idx |-> last_log_idx, last_log_term |-> last_log_term]

VoteResponseMsg(term, vote_granted) ==
    [term |-> term, rpc |-> "VoteResponse", vote_granted |-> vote_granted]

AppendRequestMsg(term, prev_log_idx, prev_log_term, entries, leader_commit) ==
    [term |-> term, rpc |-> "AppendRequest",
     prev_log_idx |-> prev_log_idx, prev_log_term |-> prev_log_term,
     entries |-> entries, leader_commit |-> leader_commit]

AppendResponseMsg(term, success, match_idx, last_log_idx) ==
    [term |-> term, rpc |-> "AppendResponse", success |-> success,
     match_idx |-> match_idx, last_log_idx |-> last_log_idx]

Sendable(message, dest) == [message |-> message, dest |-> dest]

-----------------------------------------------------------------------------
(* core.rs: the leadership variants and the helpers *)

Follower(leader, election_ticks, random_election_ticks) ==
    [tag |-> "Follower", leader |-> leader, election_ticks |-> election_ticks,
     random_election_ticks |-> random_election_ticks]

Candidate(votes_granted, election_ticks) ==
    [tag |-> "Candidate", votes_granted |-> votes_granted,
     election_ticks |-> election_ticks]

Leader(followers, heartbeat_ticks) ==
    [tag |-> "Leader", followers |-> followers, heartbeat_ticks |-> heartbeat_ticks]

ReplicationState(next_idx) ==
    [next_idx |-> next_idx, match_idx |-> 0, inflight |-> None,
     send_probe |-> FALSE, send_heartbeat |-> FALSE]

\* quorum_size counting half of the group, not a majority
quorum_size_half(peer_count) == (peer_count + 1) \div 2

quorum_size(peer_count) == ((peer_count + 1) \div 2) + 1

\* rnd is the value drawn from the random source
random_election_timeout(rnd, election_timeout_ticks) ==
    IF election_timeout_ticks = 0 THEN 0
    ELSE election_timeout_ticks + (rnd % election_timeout_ticks)

State_new(node_id, peers, log, rnd, config) ==
    LET random_election_ticks ==
            random_election_timeout(rnd, config.election_timeout_ticks)
    IN [node_id |-> node_id,
        peers |-> peers \ {node_id},
        config |-> config,
        log |-> LogState_new(log),
        current_term |-> 0,
        voted_for |-> None,
        leadership |-> Follower(None, random_election_ticks, random_election_ticks)]

is_leader(s) == s.leadership.tag = "Leader"

\* State::leader: (Option<NodeId>, TermId)
leader(s) ==
    <<CASE s.leadership.tag = "Follower" -> s.leadership.leader
        [] s.leadership.tag = "Candidate" -> None
        [] s.leadership.tag = "Leader" -> Some(s.node_id),
      s.current_term>>

\* the values of f on S, largest first
RECURSIVE sort_desc(_, _)
sort_desc(f, S) ==
    IF S = {} THEN <<>>
    ELSE LET m == CHOOSE x \in S : \A y \in S : f[x] >= f[y]
         IN <<f[m]>> \o sort_desc(f, S \ {m})

\* advance_commit_idx committing the largest index a quorum holds, whatever its term
advance_commit_idx_any_term(s) ==
    IF s.leadership.tag = "Leader"
    THEN LET own == s.node_id
             match_of == [p \in s.peers \cup {own} |->
                            IF p = own THEN last_index(s.log)
                            ELSE s.leadership.followers[p].match_idx]
             match_idxs == sort_desc(match_of, s.peers \cup {own})
             skip == quorum_size(Cardinality(s.peers)) - 1
             agree_idx == IF skip < Len(match_idxs)
                          THEN Some(match_idxs[skip + 1]) ELSE None
             commit_idx ==
                 IF agree_idx # None
                 THEN Max(s.log.commit_idx, TheOne(agree_idx))
                 ELSE s.log.commit_idx
         IN [s EXCEPT !.log.commit_idx = commit_idx]
    ELSE s

\* advance_commit_idx committing what any one node holds, not what a quorum holds
advance_commit_idx_any(s) ==
    IF s.leadership.tag = "Leader"
    THEN LET own == s.node_id
             match_of == [p \in s.peers \cup {own} |->
                            IF p = own THEN last_index(s.log)
                            ELSE s.leadership.followers[p].match_idx]
             match_idxs == sort_desc(match_of, s.peers \cup {own})
             skip == 0
             agree_idx == IF skip < Len(match_idxs)
                          THEN Some(match_idxs[skip + 1]) ELSE None
             commit_idx ==
                 IF agree_idx # None
                    /\ get_term(s.log, TheOne(agree_idx)) = Some(s.current_term)
                 THEN Max(s.log.commit_idx, TheOne(agree_idx))
                 ELSE s.log.commit_idx
         IN [s EXCEPT !.log.commit_idx = commit_idx]
    ELSE s

advance_commit_idx(s) ==
    IF s.leadership.tag = "Leader"
    THEN LET own == s.node_id
             match_of == [p \in s.peers \cup {own} |->
                            IF p = own THEN last_index(s.log)
                            ELSE s.leadership.followers[p].match_idx]
             match_idxs == sort_desc(match_of, s.peers \cup {own})
             skip == quorum_size(Cardinality(s.peers)) - 1
             agree_idx == IF skip < Len(match_idxs)
                          THEN Some(match_idxs[skip + 1]) ELSE None
             commit_idx ==
                 IF agree_idx # None
                    /\ get_term(s.log, TheOne(agree_idx)) = Some(s.current_term)
                 THEN Max(s.log.commit_idx, TheOne(agree_idx))
                 ELSE s.log.commit_idx
         IN [s EXCEPT !.log.commit_idx = commit_idx]
    ELSE s

\* client_request appending whatever the leadership
client_request_any(s, data) ==
    LET entry == [term |-> s.current_term, data |-> data]
    IN IF TRUE
       THEN LET a == mem_append(s.log.log, entry)
            IN IF a.ok
               THEN [state |-> advance_commit_idx([s EXCEPT !.log.log = a.log]),
                     result |-> [kind |-> "Ok"]]
               ELSE [state |-> [s EXCEPT !.log.log = a.log],
                     result |-> [kind |-> "LogErr"]]
       ELSE [state |-> s, result |-> [kind |-> "Cancelled", data |-> entry.data]]

\* Result<(), AppendError>: Ok, Cancelled { data } or LogErr
client_request(s, data) ==
    LET entry == [term |-> s.current_term, data |-> data]
    IN IF s.leadership.tag = "Leader"
       THEN LET a == mem_append(s.log.log, entry)
            IN IF a.ok
               THEN [state |-> advance_commit_idx([s EXCEPT !.log.log = a.log]),
                     result |-> [kind |-> "Ok"]]
               ELSE [state |-> [s EXCEPT !.log.log = a.log],
                     result |-> [kind |-> "LogErr"]]
       ELSE [state |-> s, result |-> [kind |-> "Cancelled", data |-> entry.data]]

\* State::become_leader without the no-op entry of the new term
become_leader_no_noop(s) ==
    IF s.leadership.tag = "Candidate"
       /\ Cardinality(s.leadership.votes_granted) >= quorum_size(Cardinality(s.peers))
    THEN LET l == [s EXCEPT !.leadership =
                      Leader([id \in s.peers |->
                                 ReplicationState(last_index(s.log) + 1)], 0)]
         IN l
    ELSE s

\* become_leader without the count of the votes
become_leader_eager(s) ==
    IF s.leadership.tag = "Candidate"
    THEN LET l == [s EXCEPT !.leadership =
                      Leader([id \in s.peers |->
                                 ReplicationState(last_index(s.log) + 1)], 0)]
         IN client_request(l, <<>>).state
    ELSE s

become_leader(s) ==
    IF s.leadership.tag = "Candidate"
       /\ Cardinality(s.leadership.votes_granted) >= quorum_size(Cardinality(s.peers))
    THEN LET l == [s EXCEPT !.leadership =
                      Leader([id \in s.peers |->
                                 ReplicationState(last_index(s.log) + 1)], 0)]
         IN client_request(l, <<>>).state
    ELSE s

request_vote(s) ==
    IF s.leadership.tag = "Candidate"
    THEN Some(VoteRequestMsg(s.current_term, last_index(s.log), last_term(s.log)))
    ELSE None

\* State::timeout without the vote for itself
timeout_novote(s, rnd) ==
    IF s.leadership.tag \in {"Follower", "Candidate"}
    THEN LET c == [s EXCEPT
                     !.current_term = s.current_term + 1,
                     !.leadership =
                         Candidate({s.node_id},
                                   random_election_timeout(
                                       rnd, s.config.election_timeout_ticks))]
             l == advance_commit_idx(become_leader(c))
         IN [state |-> l,
             out |-> {Sendable(m, Broadcast) : m \in request_vote(l)}]
    ELSE [state |-> s, out |-> None]

\* State::timeout that leaves the election to the vote responses
timeout_await_votes(s, rnd) ==
    IF s.leadership.tag \in {"Follower", "Candidate"}
    THEN LET c == [s EXCEPT
                     !.current_term = s.current_term + 1,
                     !.voted_for = Some(s.node_id),
                     !.leadership =
                         Candidate({s.node_id},
                                   random_election_timeout(
                                       rnd, s.config.election_timeout_ticks))]
             l == advance_commit_idx(c)
         IN [state |-> l,
             out |-> {Sendable(m, Broadcast) : m \in request_vote(l)}]
    ELSE [state |-> s, out |-> None]

timeout(s, rnd) ==
    IF s.leadership.tag \in {"Follower", "Candidate"}
    THEN LET c == [s EXCEPT
                     !.current_term = s.current_term + 1,
                     !.voted_for = Some(s.node_id),
                     !.leadership =
                         Candidate({s.node_id},
                                   random_election_timeout(
                                       rnd, s.config.election_timeout_ticks))]
             l == advance_commit_idx(become_leader(c))
         IN [state |-> l,
             out |-> {Sendable(m, Broadcast) : m \in request_vote(l)}]
    ELSE [state |-> s, out |-> None]

\* timer_tick of a Leader that never asks for a heartbeat
timer_tick_no_heartbeat(s, rnd) ==
    IF s.leadership.tag \in {"Follower", "Candidate"}
    THEN LET new_election_ticks == SatSub(s.leadership.election_ticks, 1)
         IN IF new_election_ticks = 0 THEN timeout(s, rnd)
            ELSE [state |-> [s EXCEPT !.leadership.election_ticks = new_election_ticks],
                  out |-> None]
    ELSE LET new_heartbeat_ticks == SatSub(s.leadership.heartbeat_ticks, 1)
         IN IF new_heartbeat_ticks = 0
            THEN [state |->
                     [s EXCEPT !.leadership.heartbeat_ticks =
                                   s.config.heartbeat_interval_ticks,
                               !.leadership.followers =
                                   [p \in DOMAIN s.leadership.followers |->
                                      [s.leadership.followers[p]
                                         EXCEPT !.send_heartbeat = FALSE]]],
                  out |-> None]
            ELSE [state |-> [s EXCEPT !.leadership.heartbeat_ticks = new_heartbeat_ticks],
                  out |-> None]

\* timer_tick with an election timer that expires one tick early
timer_tick_early(s, rnd) ==
    IF s.leadership.tag \in {"Follower", "Candidate"}
    THEN LET new_election_ticks == SatSub(s.leadership.election_ticks, 1)
         IN IF new_election_ticks <= 1 THEN timeout(s, rnd)
            ELSE [state |-> [s EXCEPT !.leadership.election_ticks = new_election_ticks],
                  out |-> None]
    ELSE LET new_heartbeat_ticks == SatSub(s.leadership.heartbeat_ticks, 1)
         IN IF new_heartbeat_ticks = 0
            THEN [state |->
                     [s EXCEPT !.leadership.heartbeat_ticks =
                                   s.config.heartbeat_interval_ticks,
                               !.leadership.followers =
                                   [p \in DOMAIN s.leadership.followers |->
                                      [s.leadership.followers[p]
                                         EXCEPT !.send_heartbeat = TRUE]]],
                  out |-> None]
            ELSE [state |-> [s EXCEPT !.leadership.heartbeat_ticks = new_heartbeat_ticks],
                  out |-> None]

timer_tick(s, rnd) ==
    IF s.leadership.tag \in {"Follower", "Candidate"}
    THEN LET new_election_ticks == SatSub(s.leadership.election_ticks, 1)
         IN IF new_election_ticks = 0 THEN timeout(s, rnd)
            ELSE [state |-> [s EXCEPT !.leadership.election_ticks = new_election_ticks],
                  out |-> None]
    ELSE LET new_heartbeat_ticks == SatSub(s.leadership.heartbeat_ticks, 1)
         IN IF new_heartbeat_ticks = 0
            THEN [state |->
                     [s EXCEPT !.leadership.heartbeat_ticks =
                                   s.config.heartbeat_interval_ticks,
                               !.leadership.followers =
                                   [p \in DOMAIN s.leadership.followers |->
                                      [s.leadership.followers[p]
                                         EXCEPT !.send_heartbeat = TRUE]]],
                  out |-> None]
            ELSE [state |-> [s EXCEPT !.leadership.heartbeat_ticks = new_heartbeat_ticks],
                  out |-> None]

reset_peer(s, peer_node_id) ==
    CASE s.leadership.tag = "Follower" -> [state |-> s, out |-> None]
      [] s.leadership.tag = "Candidate" ->
           [state |-> s,
            out |-> IF peer_node_id \in s.peers
                    THEN {Sendable(m, To(peer_node_id)) : m \in request_vote(s)}
                    ELSE None]
      [] s.leadership.tag = "Leader" ->
           [state |->
               IF peer_node_id \in DOMAIN s.leadership.followers
               THEN [s EXCEPT !.leadership.followers[peer_node_id] =
                        [@ EXCEPT !.next_idx = last_index(s.log) + 1,
                                  !.send_probe = TRUE,
                                  !.send_heartbeat = TRUE,
                                  !.inflight = None]]
               ELSE s,
            out |-> None]

-----------------------------------------------------------------------------
(* core.rs: per-peer AppendEntries generation *)

\* the loop of append_entries collecting every entry up to the end of the log,
\* whatever the chunk size
collect_entries_all(ls, entry_log_idx, last_log_idx, entries, entries_size, max_entries_size) ==
    [k \in 1..(last_log_idx - entry_log_idx + 1) |->
        TheOne(get(ls, entry_log_idx + k - 1))]

\* the loop of append_entries that collects the entries of one request
RECURSIVE collect_entries(_, _, _, _, _, _)
collect_entries(ls, entry_log_idx, last_log_idx, entries, entries_size, max_entries_size) ==
    IF entry_log_idx > last_log_idx THEN entries
    ELSE LET log_entry == get(ls, entry_log_idx)
             first_entry == entries_size = 0
         IN IF log_entry = None THEN entries
            ELSE IF ~first_entry /\ entries_size = max_entries_size THEN entries
            ELSE LET new_size == entries_size + entry_len(TheOne(log_entry))
                 IN IF first_entry \/ new_size <= max_entries_size
                    THEN collect_entries(ls, entry_log_idx + 1, last_log_idx,
                                         Append(entries, TheOne(log_entry)),
                                         new_size, max_entries_size)
                    ELSE entries

append_entries(s, to_node_id) ==
    IF s.leadership.tag = "Leader" /\ to_node_id \in DOMAIN s.leadership.followers
    THEN LET replication == s.leadership.followers[to_node_id]
             last_log_idx == last_index(s.log)
             next_idx == replication.next_idx
             send_entries == last_log_idx >= next_idx /\ ~replication.send_probe
             prev_log_idx == SatSub(next_idx, 1)
             maybe_prev_log_term ==
                 IF prev_log_idx # 0 THEN get_term(s.log, prev_log_idx) ELSE Some(0)
             entries ==
                 IF send_entries
                 THEN collect_entries(s.log, next_idx, last_log_idx, <<>>, 0,
                                      s.config.replication_chunk_size)
                 ELSE <<>>
             last_entry == prev_log_idx + Len(entries)
         IN IF (~send_entries /\ ~replication.send_heartbeat)
               \/ replication.inflight # None
               \/ maybe_prev_log_term = None
            THEN [state |-> s, out |-> None]
            ELSE [state |->
                     [s EXCEPT !.leadership.followers[to_node_id] =
                         [@ EXCEPT !.send_heartbeat = FALSE,
                                   !.inflight = Some(last_entry)]],
                  out |-> Some(Sendable(
                     AppendRequestMsg(s.current_term, prev_log_idx,
                                      TheOne(maybe_prev_log_term), entries,
                                      Min(s.log.commit_idx, last_entry)),
                     To(to_node_id)))]
    ELSE [state |-> s, out |-> None]

-----------------------------------------------------------------------------
(* core.rs: message handlers *)

\* handle_vote_request granting a vote whatever the log of the candidate
handle_vote_request_any_log(s, msg_term, msg, from) ==
    LET last_log_idx == last_index(s.log)
        last_log_term == last_term(s.log)
        log_ok == \/ msg.last_log_term > last_log_term
                  \/ /\ msg.last_log_term = last_log_term
                     /\ msg.last_log_idx >= last_log_idx
        grant == /\ msg_term = s.current_term
                 /\ (s.voted_for = None \/ s.voted_for = Some(from))
        voted == IF grant THEN [s EXCEPT !.voted_for = Some(from)] ELSE s
        ticked == IF grant /\ voted.leadership.tag = "Follower"
                  THEN [voted EXCEPT !.leadership.election_ticks =
                                         voted.leadership.random_election_ticks]
                  ELSE voted
    IN [state |-> ticked,
        reply |-> Some(Sendable(VoteResponseMsg(s.current_term, grant), To(from))),
        panic |-> IF msg_term <= s.current_term THEN "none" ELSE "assert"]

\* handle_vote_request granting a second vote in a term
handle_vote_request_regrant(s, msg_term, msg, from) ==
    LET last_log_idx == last_index(s.log)
        last_log_term == last_term(s.log)
        log_ok == \/ msg.last_log_term > last_log_term
                  \/ /\ msg.last_log_term = last_log_term
                     /\ msg.last_log_idx >= last_log_idx
        grant == /\ msg_term = s.current_term
                 /\ log_ok
        voted == IF grant THEN [s EXCEPT !.voted_for = Some(from)] ELSE s
        ticked == IF grant /\ voted.leadership.tag = "Follower"
                  THEN [voted EXCEPT !.leadership.election_ticks =
                                         voted.leadership.random_election_ticks]
                  ELSE voted
    IN [state |-> ticked,
        reply |-> Some(Sendable(VoteResponseMsg(s.current_term, grant), To(from))),
        panic |-> IF msg_term <= s.current_term THEN "none" ELSE "assert"]

handle_vote_request(s, msg_term, msg, from) ==
    LET last_log_idx == last_index(s.log)
        last_log_term == last_term(s.log)
        log_ok == \/ msg.last_log_term > last_log_term
                  \/ /\ msg.last_log_term = last_log_term
                     /\ msg.last_log_idx >= last_log_idx
        grant == /\ msg_term = s.current_term
                 /\ log_ok
                 /\ (s.voted_for = None \/ s.voted_for = Some(from))
        voted == IF grant THEN [s EXCEPT !.voted_for = Some(from)] ELSE s
        ticked == IF grant /\ voted.leadership.tag = "Follower"
                  THEN [voted EXCEPT !.leadership.election_ticks =
                                         voted.leadership.random_election_ticks]
                  ELSE voted
    IN [state |-> ticked,
        reply |-> Some(Sendable(VoteResponseMsg(s.current_term, grant), To(from))),
        panic |-> IF msg_term <= s.current_term THEN "none" ELSE "assert"]

\* State::handle_vote_response that counts a response whether it grants the vote or not
handle_vote_response_any(s, msg_term, msg, from) ==
    [state |-> IF s.leadership.tag = "Candidate" /\ msg.term = s.current_term
               THEN [s EXCEPT !.leadership.votes_granted = @ \cup {from}]
               ELSE s,
     reply |-> None,
     panic |-> IF msg_term = s.current_term THEN "none" ELSE "assert"]

handle_vote_response(s, msg_term, msg, from) ==
    [state |-> IF s.leadership.tag = "Candidate" /\ msg.vote_granted
               THEN [s EXCEPT !.leadership.votes_granted = @ \cup {from}]
               ELSE s,
     reply |-> None,
     panic |-> IF msg_term = s.current_term THEN "none" ELSE "assert"]

\* the loop of handle_append_request appending every entry of the request
\* without looking at the log
append_walk_push(ls, prev_log_idx, entries, j, last_processed_idx) ==
    [ls |-> [ls EXCEPT !.log.entries = @ \o entries],
     last_processed_idx |-> prev_log_idx + Len(entries), panic |-> "none"]

\* the loop of handle_append_request over the entries of the request; j is the
\* position in msg.entries of the entry to process
RECURSIVE append_walk(_, _, _, _, _)
append_walk(ls, prev_log_idx, entries, j, last_processed_idx) ==
    IF j > Len(entries)
    THEN [ls |-> ls, last_processed_idx |-> last_processed_idx, panic |-> "none"]
    ELSE
    LET msg_entry_log_idx == prev_log_idx + j
        msg_entry == entries[j]
        our_entry_log_term == get_term(ls, msg_entry_log_idx)
        stop(l) == [ls |-> [ls EXCEPT !.log = l],
                    last_processed_idx |-> last_processed_idx, panic |-> "none"]
    IN IF msg_entry_log_idx = last_index(ls) + 1
       THEN LET a == mem_append(ls.log, msg_entry)
            IN IF a.ok
               THEN append_walk([ls EXCEPT !.log = a.log], prev_log_idx, entries,
                                j + 1, msg_entry_log_idx)
               ELSE stop(a.log)
       ELSE IF our_entry_log_term # None
       THEN IF TheOne(our_entry_log_term) # msg_entry.term
            THEN IF ~(msg_entry_log_idx > ls.commit_idx)
                 THEN [ls |-> ls, last_processed_idx |-> last_processed_idx,
                       panic |-> "truncate at or below commit_idx"]
                 ELSE LET c == mem_cancel_from(ls.log, msg_entry_log_idx)
                          a == mem_append(c.log, msg_entry)
                      IN IF ~c.ok THEN stop(c.log)
                         ELSE IF ~a.ok THEN stop(a.log)
                         ELSE append_walk([ls EXCEPT !.log = a.log], prev_log_idx,
                                          entries, j + 1, msg_entry_log_idx)
            ELSE append_walk(ls, prev_log_idx, entries, j + 1, msg_entry_log_idx)
       ELSE stop(ls.log)

\* commit_from_leader taking the leader's commit index even when it is lower
commit_from_leader_unguarded(ls, msg_leader_commit, last_processed_idx) ==
    LET leader_commit == Min(msg_leader_commit, last_processed_idx)
    IN IF leader_commit # ls.commit_idx
       THEN [ls EXCEPT !.commit_idx = leader_commit]
       ELSE ls

\* handle_append_request, "update commit index from leader"
commit_from_leader(ls, msg_leader_commit, last_processed_idx) ==
    LET leader_commit == Min(msg_leader_commit, last_processed_idx)
    IN IF leader_commit > ls.commit_idx
       THEN [ls EXCEPT !.commit_idx = leader_commit]
       ELSE ls

\* handle_append_request comparing prev_log_term at prev_log_idx = 0 too
handle_append_request_strict(s, msg_term, msg, from, rnd) ==
    LET prev_log_idx == msg.prev_log_idx
        our_prev_log_term == get_term(s.log, prev_log_idx)
        log_ok == Some(msg.prev_log_term) = our_prev_log_term
        random_election_ticks ==
            random_election_timeout(rnd, s.config.election_timeout_ticks)
        f == IF msg_term # s.current_term THEN s
             ELSE IF s.leadership.tag = "Candidate"
             THEN [s EXCEPT !.leadership =
                      Follower(Some(from), random_election_ticks, random_election_ticks)]
             ELSE IF s.leadership.tag = "Follower"
             THEN [s EXCEPT !.leadership.leader = Some(from),
                            !.leadership.election_ticks =
                                s.leadership.random_election_ticks]
             ELSE s
    IN IF msg_term = s.current_term /\ s.leadership.tag = "Leader"
       THEN [state |-> s, reply |-> None, panic |-> "received append request as leader"]
       ELSE IF msg_term < f.current_term \/ ~log_ok
       THEN [state |-> f,
             reply |-> Some(Sendable(
                 AppendResponseMsg(f.current_term, FALSE, prev_index(f.log),
                                   last_index(f.log)),
                 To(from))),
             panic |-> "none"]
       ELSE LET msg_last_log_idx == prev_log_idx + Len(msg.entries)
                w == append_walk(f.log, prev_log_idx, msg.entries, 1, prev_log_idx)
                ls == commit_from_leader(w.ls, msg.leader_commit, w.last_processed_idx)
            IN IF w.panic # "none"
               THEN [state |-> s, reply |-> None, panic |-> w.panic]
               ELSE [state |-> [f EXCEPT !.log = ls],
                     reply |-> Some(Sendable(
                         AppendResponseMsg(f.current_term, TRUE,
                                           Min(msg_last_log_idx, last_index(ls)),
                                           last_index(ls)),
                         To(from))),
                     panic |-> "none"]

\* handle_append_request that takes the sender of a request of an earlier term for its leader
handle_append_request_any_term(s, msg_term, msg, from, rnd) ==
    LET prev_log_idx == msg.prev_log_idx
        our_prev_log_term == get_term(s.log, prev_log_idx)
        log_ok == prev_log_idx = 0 \/ Some(msg.prev_log_term) = our_prev_log_term
        random_election_ticks ==
            random_election_timeout(rnd, s.config.election_timeout_ticks)
        f == IF FALSE THEN s
             ELSE IF s.leadership.tag = "Candidate"
             THEN [s EXCEPT !.leadership =
                      Follower(Some(from), random_election_ticks, random_election_ticks)]
             ELSE IF s.leadership.tag = "Follower"
             THEN [s EXCEPT !.leadership.leader = Some(from),
                            !.leadership.election_ticks =
                                s.leadership.random_election_ticks]
             ELSE s
    IN IF msg_term = s.current_term /\ s.leadership.tag = "Leader"
       THEN [state |-> s, reply |-> None, panic |-> "received append request as leader"]
       ELSE IF msg_term < f.current_term \/ ~log_ok
       THEN [state |-> f,
             reply |-> Some(Sendable(
                 AppendResponseMsg(f.current_term, FALSE, prev_index(f.log),
                                   last_index(f.log)),
                 To(from))),
             panic |-> "none"]
       ELSE LET msg_last_log_idx == prev_log_idx + Len(msg.entries)
                w == append_walk(f.log, prev_log_idx, msg.entries, 1, prev_log_idx)
                ls == commit_from_leader(w.ls, msg.leader_commit, w.last_processed_idx)
            IN IF w.panic # "none"
               THEN [state |-> s, reply |-> None, panic |-> w.panic]
               ELSE [state |-> [f EXCEPT !.log = ls],
                     reply |-> Some(Sendable(
                         AppendResponseMsg(f.current_term, TRUE,
                                           Min(msg_last_log_idx, last_index(ls)),
                                           last_index(ls)),
                         To(from))),
                     panic |-> "none"]

handle_append_request(s, msg_term, msg, from, rnd) ==
    LET prev_log_idx == msg.prev_log_idx
        our_prev_log_term == get_term(s.log, prev_log_idx)
        log_ok == prev_log_idx = 0 \/ Some(msg.prev_log_term) = our_prev_log_term
        random_election_ticks ==
            random_election_timeout(rnd, s.config.election_timeout_ticks)
        f == IF msg_term # s.current_term THEN s
             ELSE IF s.leadership.tag = "Candidate"
             THEN [s EXCEPT !.leadership =
                      Follower(Some(from), random_election_ticks, random_election_ticks)]
             ELSE IF s.leadership.tag = "Follower"
             THEN [s EXCEPT !.leadership.leader = Some(from),
                            !.leadership.election_ticks =
                                s.leadership.random_election_ticks]
             ELSE s
    IN IF msg_term = s.current_term /\ s.leadership.tag = "Leader"
       THEN [state |-> s, reply |-> None, panic |-> "received append request as leader"]
       ELSE IF msg_term < f.current_term \/ ~log_ok
       THEN [state |-> f,
             reply |-> Some(Sendable(
                 AppendResponseMsg(f.current_term, FALSE, prev_index(f.log),
                                   last_index(f.log)),
                 To(from))),
             panic |-> "none"]
       ELSE LET msg_last_log_idx == prev_log_idx + Len(msg.entries)
                w == append_walk(f.log, prev_log_idx, msg.entries, 1, prev_log_idx)
                ls == commit_from_leader(w.ls, msg.leader_commit, w.last_processed_idx)
            IN IF w.panic # "none"
               THEN [state |-> s, reply |-> None, panic |-> w.panic]
               ELSE [state |-> [f EXCEPT !.log = ls],
                     reply |-> Some(Sendable(
                         AppendResponseMsg(f.current_term, TRUE,
                                           Min(msg_last_log_idx, last_index(ls)),
                                           last_index(ls)),
                         To(from))),
                     panic |-> "none"]

\* the loop of handle_append_response that rewinds next_idx by up to one chunk
RECURSIVE rewind_next_idx(_, _, _, _)
rewind_next_idx(ls, replication_next_idx, msg_match_idx, chunk_size_remaining) ==
    IF replication_next_idx - 1 < 0 THEN replication_next_idx
    ELSE LET next_idx == replication_next_idx - 1
             entry_len_opt == get_len(ls, replication_next_idx)
         IN IF next_idx <= msg_match_idx THEN replication_next_idx
            ELSE IF entry_len_opt = None THEN replication_next_idx
            ELSE IF chunk_size_remaining - TheOne(entry_len_opt) < 0
            THEN replication_next_idx
            ELSE rewind_next_idx(ls, next_idx, msg_match_idx,
                                 chunk_size_remaining - TheOne(entry_len_opt))

\* State::handle_append_response moving next_idx on at every success
handle_append_response_step(s, msg_term, msg, from) ==
    LET known == s.leadership.tag = "Leader" /\ from \in DOMAIN s.leadership.followers
        replication == s.leadership.followers[from]
        on_success ==
            [replication EXCEPT
                !.inflight = IF replication.inflight = None
                                \/ msg.match_idx >= TheOne(replication.inflight)
                             THEN None ELSE replication.inflight,
                !.next_idx = IF msg.match_idx + 1 > replication.next_idx
                             THEN msg.match_idx + 1 ELSE replication.next_idx + 1,
                !.match_idx = IF msg.match_idx > replication.match_idx
                              THEN msg.match_idx ELSE replication.match_idx,
                !.send_probe = FALSE]
        on_failure ==
            [replication EXCEPT
                !.next_idx =
                    rewind_next_idx(
                        s.log,
                        Max(Min(SatSub(replication.next_idx, 1), msg.last_log_idx + 1),
                            msg.match_idx + 1),
                        msg.match_idx,
                        s.config.replication_chunk_size),
                !.send_probe = TRUE,
                !.inflight = None]
    IN [state |-> IF known
                  THEN [s EXCEPT !.leadership.followers[from] =
                           IF msg.success THEN on_success ELSE on_failure]
                  ELSE s,
        reply |-> None,
        panic |-> IF msg_term = s.current_term THEN "none" ELSE "assert"]

\* handle_append_response that clamps next_idx and does not rewind it further
handle_append_response_clamp(s, msg_term, msg, from) ==
    LET known == s.leadership.tag = "Leader" /\ from \in DOMAIN s.leadership.followers
        replication == s.leadership.followers[from]
        on_success ==
            [replication EXCEPT
                !.inflight = IF replication.inflight = None
                                \/ msg.match_idx >= TheOne(replication.inflight)
                             THEN None ELSE replication.inflight,
                !.next_idx = IF msg.match_idx + 1 > replication.next_idx
                             THEN msg.match_idx + 1 ELSE replication.next_idx,
                !.match_idx = IF msg.match_idx > replication.match_idx
                              THEN msg.match_idx ELSE replication.match_idx,
                !.send_probe = FALSE]
        on_failure ==
            [replication EXCEPT
                !.next_idx =
                    Max(Min(SatSub(replication.next_idx, 1), msg.last_log_idx + 1),
                        msg.match_idx + 1),
                !.send_probe = TRUE,
                !.inflight = None]
    IN [state |-> IF known
                  THEN [s EXCEPT !.leadership.followers[from] =
                           IF msg.success THEN on_success ELSE on_failure]
                  ELSE s,
        reply |-> None,
        panic |-> IF msg_term = s.current_term THEN "none" ELSE "assert"]

handle_append_response(s, msg_term, msg, from) ==
    LET known == s.leadership.tag = "Leader" /\ from \in DOMAIN s.leadership.followers
        replication == s.leadership.followers[from]
        on_success ==
            [replication EXCEPT
                !.inflight = IF replication.inflight = None
                                \/ msg.match_idx >= TheOne(replication.inflight)
                             THEN None ELSE replication.inflight,
                !.next_idx = IF msg.match_idx + 1 > replication.next_idx
                             THEN msg.match_idx + 1 ELSE replication.next_idx,
                !.match_idx = IF msg.match_idx > replication.match_idx
                              THEN msg.match_idx ELSE replication.match_idx,
                !.send_probe = FALSE]
        on_failure ==
            [replication EXCEPT
                !.next_idx =
                    rewind_next_idx(
                        s.log,
                        Max(Min(SatSub(replication.next_idx, 1), msg.last_log_idx + 1),
                            msg.match_idx + 1),
                        msg.match_idx,
                        s.config.replication_chunk_size),
                !.send_probe = TRUE,
                !.inflight = None]
    IN [state |-> IF known
                  THEN [s EXCEPT !.leadership.followers[from] =
                           IF msg.success THEN on_success ELSE on_failure]
                  ELSE s,
        reply |-> None,
        panic |-> IF msg_term = s.current_term THEN "none" ELSE "assert"]

\* update_term adopting any other term, a lower one included
update_term_any(s, msg_term, rnd) ==
    IF msg_term # s.current_term
    THEN LET random_election_ticks ==
                 random_election_timeout(rnd, s.config.election_timeout_ticks)
             election_ticks ==
                 IF s.leadership.tag = "Leader" THEN random_election_ticks
                 ELSE s.leadership.election_ticks
         IN [s EXCEPT !.current_term = msg_term,
                      !.leadership = Follower(None, election_ticks, random_election_ticks),
                      !.voted_for = None]
    ELSE s

\* State::update_term that adopts the term and keeps the role
update_term_keep_leadership(s, msg_term, rnd) ==
    IF msg_term > s.current_term
    THEN LET random_election_ticks ==
                 random_election_timeout(rnd, s.config.election_timeout_ticks)
             election_ticks ==
                 IF s.leadership.tag = "Leader" THEN random_election_ticks
                 ELSE s.leadership.election_ticks
         IN [s EXCEPT !.current_term = msg_term,
                      !.voted_for = None]
    ELSE s

\* update_term that forgets what was committed when the term changes
update_term_forget(s, msg_term, rnd) ==
    IF msg_term > s.current_term
    THEN LET random_election_ticks ==
                 random_election_timeout(rnd, s.config.election_timeout_ticks)
             election_ticks ==
                 IF s.leadership.tag = "Leader" THEN random_election_ticks
                 ELSE s.leadership.election_ticks
         IN [s EXCEPT !.current_term = msg_term,
                      !.leadership = Follower(None, election_ticks, random_election_ticks),
                      !.voted_for = None,
                      !.log.commit_idx = 0]
    ELSE s

update_term(s, msg_term, rnd) ==
    IF msg_term > s.current_term
    THEN LET random_election_ticks ==
                 random_election_timeout(rnd, s.config.election_timeout_ticks)
             election_ticks ==
                 IF s.leadership.tag = "Leader" THEN random_election_ticks
                 ELSE s.leadership.election_ticks
         IN [s EXCEPT !.current_term = msg_term,
                      !.leadership = Follower(None, election_ticks, random_election_ticks),
                      !.voted_for = None]
    ELSE s

\* drop_stale_response that drops no response
drop_stale_response_never(s, msg_term) == FALSE

\* whether drop_stale_response drops the response
drop_stale_response(s, msg_term) == msg_term < s.current_term

\* State::receive without the check of the sender
receive_unchecked(s, msg, from, rnd) ==
    IF FALSE
    THEN [state |-> s, reply |-> None, panic |-> "none"]
    ELSE LET u == update_term(s, msg.term, rnd)
             h == CASE msg.rpc = "VoteRequest" ->
                         handle_vote_request(u, msg.term, msg, from)
                    [] msg.rpc = "VoteResponse" ->
                         IF drop_stale_response(u, msg.term)
                         THEN [state |-> u, reply |-> None, panic |-> "none"]
                         ELSE handle_vote_response(u, msg.term, msg, from)
                    [] msg.rpc = "AppendRequest" ->
                         handle_append_request(u, msg.term, msg, from, rnd)
                    [] msg.rpc = "AppendResponse" ->
                         IF drop_stale_response(u, msg.term)
                         THEN [state |-> u, reply |-> None, panic |-> "none"]
                         ELSE handle_append_response(u, msg.term, msg, from)
                    [] OTHER -> [state |-> u, reply |-> None, panic |-> "none"]
         IN IF h.panic # "none" THEN [state |-> s, reply |-> None, panic |-> h.panic]
            ELSE [state |-> advance_commit_idx(become_leader(h.state)),
                  reply |-> h.reply, panic |-> "none"]

\* State::receive: the state after the call, the reply, and the panic if any
receive(s, msg, from, rnd) ==
    IF from \notin s.peers
    THEN [state |-> s, reply |-> None, panic |-> "none"]
    ELSE LET u == update_term(s, msg.term, rnd)
             h == CASE msg.rpc = "VoteRequest" ->
                         handle_vote_request(u, msg.term, msg, from)
                    [] msg.rpc = "VoteResponse" ->
                         IF drop_stale_response(u, msg.term)
                         THEN [state |-> u, reply |-> None, panic |-> "none"]
                         ELSE handle_vote_response(u, msg.term, msg, from)
                    [] msg.rpc = "AppendRequest" ->
                         handle_append_request(u, msg.term, msg, from, rnd)
                    [] msg.rpc = "AppendResponse" ->
                         IF drop_stale_response(u, msg.term)
                         THEN [state |-> u, reply |-> None, panic |-> "none"]
                         ELSE handle_append_response(u, msg.term, msg, from)
                    [] OTHER -> [state |-> u, reply |-> None, panic |-> "none"]
         IN IF h.panic # "none" THEN [state |-> s, reply |-> None, panic |-> h.panic]
            ELSE [state |-> advance_commit_idx(become_leader(h.state)),
                  reply |-> h.reply, panic |-> "none"]

-----------------------------------------------------------------------------
(* node.rs: the facade, which chains append_entries for every peer *)

RECURSIVE node_append_entries(_, _)
node_append_entries(s, peers) ==
    IF peers = {} THEN [state |-> s, out |-> {}]
    ELSE Let(CHOOSE p \in peers : \A q \in peers : p <= q, LAMBDA peer :
         Let(append_entries(s, peer), LAMBDA a :
         Let(node_append_entries(a.state, peers \ {peer}), LAMBDA rest :
             [state |-> rest.state, out |-> a.out \cup rest.out])))

node_append(s, data) ==
    Let(client_request(s, data), LAMBDA r :
        IF r.result.kind = "Ok"
        THEN Let(node_append_entries(r.state, r.state.peers), LAMBDA a :
                 [state |-> a.state, out |-> a.out, result |-> r.result])
        ELSE [state |-> r.state, out |-> {}, result |-> r.result])

node_receive(s, message, from, rnd) ==
    Let(receive(s, message, from, rnd), LAMBDA r :
        IF r.panic # "none" THEN [state |-> s, out |-> {}, panic |-> r.panic]
        ELSE Let(node_append_entries(r.state, r.state.peers), LAMBDA a :
                 [state |-> a.state, out |-> r.reply \cup a.out, panic |-> "none"]))

node_timer_tick(s, rnd) ==
    Let(timer_tick(s, rnd), LAMBDA r :
    Let(node_append_entries(r.state, r.state.peers), LAMBDA a :
        [state |-> a.state, out |-> r.out \cup a.out]))

-----------------------------------------------------------------------------
(* The group of nodes and the network *)

GroupConfig ==
    [election_timeout_ticks |-> 1, heartbeat_interval_ticks |-> 1,
     replication_chunk_size |-> 10]

NoCall == [op |-> "none"]

\* tests/common.rs TestRaftGroupConfig::default(): nothing is dropped and no
\* node is down
TestRaftGroupConfig_default == [drops |-> {}, down |-> {}]

\* the group of the tests: the parity of its tick, its connectivity, the unicast
\* messages it could not deliver and keeps, the number of times it was
\* partitioned and the values its clients have requested
Connected ==
    [tick |-> 0, config |-> TestRaftGroupConfig_default, dropped_messages |-> <<>>,
     partitions |-> 0, requests |-> {}]

InitGroup(group, config, log, lim) ==
    /\ limits = lim
    /\ delivered = 0
    /\ resets = 0
    /\ \E rnd \in [group -> RandomValues(config)] :
          node = [i \in group |-> State_new(i, group, log, rnd[i], config)]
    /\ msgs = {}
    /\ panicked = [i \in group |-> "none"]
    /\ ret = NoCall
    /\ taken = [i \in group |-> <<>>]
    /\ elected = {}
    /\ committed = {}
    /\ consumed = {}
    /\ net = Connected

Limits(max_term, max_elections, max_log_len, max_deliveries, max_resets, record) ==
    [max_term |-> max_term, max_elections |-> max_elections,
     max_log_len |-> max_log_len, max_deliveries |-> max_deliveries,
     max_resets |-> max_resets, record |-> record, once |-> FALSE]

Init ==
    InitGroup(Nodes, GroupConfig, new_unbounded,
              Limits(MaxTerm, MaxElections, MaxLogLen, MaxDeliveries, 0, FALSE))

InitApi ==
    InitGroup(Nodes, GroupConfig, new_unbounded,
              Limits(ApiMaxTerm, ApiMaxElections, ApiMaxLogLen, ApiMaxDeliveries,
                     ApiMaxResets, TRUE))

\* the messages a call on node i returned, as the network holds them: the host
\* sends a Broadcast message to every peer
Sent(i, out) ==
    {[from |-> i, message |-> o.message, dest |-> To(o.dest.id)] :
        o \in {x \in out : x.dest.kind = "To"}}
    \cup {[from |-> i, message |-> o.message, dest |-> To(peer)] :
             o \in {x \in out : x.dest.kind = "Broadcast"}, peer \in node[i].peers}

\* the host sends the messages a call on node i returned; where the network
\* delivers a message at most once, the messages received by the call are
\* gone, and a message sent again can be delivered again
Emits(i, out, received) ==
    /\ msgs' = msgs \cup Sent(i, out)
    /\ consumed' = IF limits.once
                   THEN (consumed \cup received) \ Sent(i, out)
                   ELSE consumed

\* the state of node i after a call, with the record of a transition to Leader
\* and of the entries the call committed on a Leader
Becomes(i, s) ==
    /\ node' = [node EXCEPT ![i] = s]
    /\ elected' = IF is_leader(s) /\ ~is_leader(node[i])
                  THEN elected \cup {<<s.current_term, i>>} ELSE elected
    /\ committed' = IF is_leader(s)
                    THEN committed \cup
                         {<<k, TheOne(get(s.log, k)), s.current_term>> :
                             k \in (node[i].log.commit_idx + 1)..s.log.commit_idx}
                    ELSE committed

Alive(i) == panicked[i] = "none"

\* the call made last and what it returned
Returns(call) == ret' = IF limits.record THEN call ELSE NoCall

\* the <<node, term>> pairs of the elections started so far
Elections ==
    {<<m.from, m.message.term>> : m \in {x \in msgs : x.message.rpc = "VoteRequest"}}
        \cup {<<e[2], e[1]>> : e \in elected}

MayTimeout(i) ==
    Cardinality(Elections) < limits.max_elections
    /\ node[i].current_term < limits.max_term

\* the host calls Node::append(data) on node i
ClientAppend(i, data) ==
    /\ Alive(i)
    /\ is_leader(node[i]) => last_index(node[i].log) < limits.max_log_len
    /\ Let(node_append(node[i], data), LAMBDA r :
          /\ Becomes(i, r.state)
          /\ Emits(i, r.out, {})
          /\ Returns([op |-> "append", node |-> i, data |-> data,
                     result |-> r.result, out |-> r.out]))
    /\ UNCHANGED <<panicked, taken, delivered, resets, limits, net>>

\* the host delivers to node i a message addressed to it
Receive(i, m) ==
    /\ Alive(i)
    /\ m.dest = To(i)
    /\ limits.once => m \notin consumed
    /\ delivered < limits.max_deliveries
    /\ delivered' = delivered + 1
    /\ \E rnd \in RandomValues(node[i].config) :
         Let(node_receive(node[i], m.message, m.from, rnd), LAMBDA r :
            /\ Becomes(i, r.state)
            /\ Emits(i, r.out, {m})
            /\ panicked' = [panicked EXCEPT ![i] = r.panic]
            /\ Returns([op |-> "receive", node |-> i, from |-> m.from,
                       message |-> m.message, out |-> r.out]))
    /\ UNCHANGED <<taken, resets, limits, net>>

\* node i is handed a message whose sender is not one of its peers
ReceiveUnknown(i, m, from) ==
    /\ Alive(i)
    /\ from \notin node[i].peers
    /\ delivered < limits.max_deliveries
    /\ delivered' = delivered + 1
    /\ \E rnd \in RandomValues(node[i].config) :
         Let(receive(node[i], m.message, from, rnd), LAMBDA r :
            /\ Becomes(i, r.state)
            /\ Emits(i, r.reply, {})
            /\ panicked' = [panicked EXCEPT ![i] = r.panic]
            /\ Returns([op |-> "State::receive", node |-> i, from |-> from,
                       message |-> m.message, out |-> r.reply]))
    /\ UNCHANGED <<taken, resets, limits, net>>

\* the host calls Node::timer_tick on node i
TimerTick(i) ==
    /\ Alive(i)
    /\ ~is_leader(node[i]) => MayTimeout(i)
    /\ \E rnd \in RandomValues(node[i].config) :
         Let(node_timer_tick(node[i], rnd), LAMBDA r :
            /\ Becomes(i, r.state)
            /\ Emits(i, r.out, {})
            /\ Returns([op |-> "timer_tick", node |-> i, out |-> r.out]))
    /\ UNCHANGED <<panicked, taken, delivered, resets, limits, net>>

\* the host calls State::timeout on node i
Timeout(i) ==
    /\ Alive(i)
    /\ MayTimeout(i)
    /\ \E rnd \in RandomValues(node[i].config) :
         Let(timeout(node[i], rnd), LAMBDA r :
            /\ Becomes(i, r.state)
            /\ Emits(i, r.out, {})
            /\ Returns([op |-> "timeout", node |-> i, out |-> r.out]))
    /\ UNCHANGED <<panicked, taken, delivered, resets, limits, net>>

\* the host calls State::reset_peer(peer) on node i
ResetPeer(i, peer) ==
    /\ Alive(i)
    /\ resets < limits.max_resets
    /\ resets' = resets + 1
    /\ Let(reset_peer(node[i], peer), LAMBDA r :
          /\ Becomes(i, r.state)
          /\ Emits(i, r.out, {})
          /\ Returns([op |-> "reset_peer", node |-> i, peer |-> peer, out |-> r.out]))
    /\ UNCHANGED <<panicked, taken, delivered, limits, net>>

\* the host takes the next entry of Node::take_committed on node i
TakeCommitted(i) ==
    /\ Alive(i)
    /\ Let(committed_next(node[i].log), LAMBDA t :
          /\ t.entry # None
          /\ node' = [node EXCEPT ![i].log = t.ls]
          /\ taken' = [taken EXCEPT ![i] =
                          Append(@, [index |-> t.ls.log.last_taken,
                                     entry |-> TheOne(t.entry)])]
          /\ Returns([op |-> "take_committed", node |-> i, entry |-> t.entry]))
    /\ UNCHANGED <<msgs, panicked, elected, committed, consumed, delivered, resets,
                   limits, net>>

\* the calls of the Node facade (node.rs)
Next ==
    \/ \E i \in DOMAIN node, data \in DataValues : ClientAppend(i, data)
    \/ \E i \in DOMAIN node, m \in msgs : Receive(i, m)
    \/ \E i \in DOMAIN node : TimerTick(i)
    \/ \E i \in DOMAIN node : TakeCommitted(i)

Spec == Init /\ [][Next]_vars

\* the calls of the facade and of the State beneath it (core.rs)
NextApi ==
    \/ \E i \in DOMAIN node, data \in DataValues : ClientAppend(i, data)
    \/ \E i \in DOMAIN node, m \in msgs : Receive(i, m)
    \/ \E i \in DOMAIN node, m \in msgs, from \in Nodes \cup UnknownSenders :
          ReceiveUnknown(i, m, from)
    \/ \E i \in DOMAIN node : TimerTick(i)
    \/ \E i \in DOMAIN node : Timeout(i)
    \/ \E i \in DOMAIN node, peer \in Nodes : ResetPeer(i, peer)

SpecApi == InitApi /\ [][NextApi]_vars

\* a group of one node whose log has a bounded data capacity
InitBounded ==
    InitGroup({1}, GroupConfig, with_capacity(BoundedCapacity),
              Limits(MaxTerm, MaxElections, BoundedMaxLogLen, 0, 0, TRUE))

NextBounded ==
    \/ \E i \in DOMAIN node, data \in BoundedDataValues : ClientAppend(i, data)
    \/ \E i \in DOMAIN node : TimerTick(i)
    \/ \E i \in DOMAIN node : TakeCommitted(i)

SpecBounded == InitBounded /\ [][NextBounded]_vars

\* a group of two nodes on a network that delays, reorders and loses messages
\* and delivers none twice
InitOnce ==
    InitGroup(OnceNodes, GroupConfig, new_unbounded,
              [Limits(OnceMaxTerm, OnceMaxElections, MaxLogLen, OnceMaxDeliveries,
                      0, FALSE) EXCEPT !.once = TRUE])

NextOnce ==
    \/ \E i \in DOMAIN node, m \in msgs : Receive(i, m)
    \/ \E i \in DOMAIN node : TimerTick(i)

SpecOnce == InitOnce /\ [][NextOnce]_vars

\* a group of two nodes configured with a replication chunk of one no-op
ProbeConfig ==
    [election_timeout_ticks |-> 1, heartbeat_interval_ticks |-> 1,
     replication_chunk_size |-> 4]

InitProbe ==
    InitGroup(OnceNodes, ProbeConfig, new_unbounded,
              Limits(OnceMaxTerm, OnceMaxElections, MaxLogLen, ProbeMaxDeliveries,
                     0, FALSE))

NextProbe ==
    \/ \E i \in DOMAIN node, data \in DataValues : ClientAppend(i, data)
    \/ \E i \in DOMAIN node, m \in msgs : Receive(i, m)
    \/ \E i \in DOMAIN node : TimerTick(i)

SpecProbe == InitProbe /\ [][NextProbe]_vars

\* a group of two nodes that changes its leader while an entry is replicated, on
\* a network that delivers no message twice
InitCommit ==
    InitGroup(OnceNodes, ProbeConfig, new_unbounded,
              [Limits(OnceMaxTerm, OnceMaxElections, MaxLogLen, CommitMaxDeliveries,
                      0, FALSE) EXCEPT !.once = TRUE])

NextCommit ==
    \/ \E i \in DOMAIN node, data \in DataValues : ClientAppend(i, data)
    \/ \E i \in DOMAIN node, m \in msgs : Receive(i, m)
    \/ \E i \in DOMAIN node : TimerTick(i)

SpecCommit == InitCommit /\ [][NextCommit]_vars

\* a group of two nodes configured with a replication chunk of ChunkSize bytes,
\* which holds one election
ChunkConfig ==
    [election_timeout_ticks |-> 1, heartbeat_interval_ticks |-> 1,
     replication_chunk_size |-> ChunkSize]

InitChunk ==
    InitGroup(OnceNodes, ChunkConfig, new_unbounded,
              Limits(ChunkMaxTerm, ChunkMaxElections, ChunkMaxLogLen, ChunkMaxDeliveries,
                     0, FALSE))

NextChunk ==
    \/ \E i \in DOMAIN node, data \in ChunkDataValues : ClientAppend(i, data)
    \/ \E i \in DOMAIN node, m \in msgs : Receive(i, m)
    \/ \E i \in DOMAIN node : TimerTick(i)

SpecChunk == InitChunk /\ [][NextChunk]_vars

\* a group of two nodes that changes its leader while an entry is replicated, so
\* that the new leader's request is rejected; the replication chunk holds two
\* entries
InitRewind ==
    InitGroup(OnceNodes, GroupConfig, new_unbounded,
              [Limits(OnceMaxTerm, OnceMaxElections, MaxLogLen, RewindMaxDeliveries,
                      0, FALSE) EXCEPT !.once = TRUE])

NextRewind ==
    \/ \E i \in DOMAIN node, data \in DataValues : ClientAppend(i, data)
    \/ \E i \in DOMAIN node, m \in msgs : Receive(i, m)
    \/ \E i \in DOMAIN node : TimerTick(i)

SpecRewind == InitRewind /\ [][NextRewind]_vars

\* a group of two nodes that changes its leader on a network that delays,
\* reorders and duplicates messages
InitDuplicate ==
    InitGroup(OnceNodes, GroupConfig, new_unbounded,
              Limits(OnceMaxTerm, OnceMaxElections, DuplicateMaxLogLen,
                     DuplicateMaxDeliveries, 0, FALSE))

NextDuplicate ==
    \/ \E i \in DOMAIN node, data \in DataValues : ClientAppend(i, data)
    \/ \E i \in DOMAIN node, m \in msgs : Receive(i, m)
    \/ \E i \in DOMAIN node : TimerTick(i)

SpecDuplicate == InitDuplicate /\ [][NextDuplicate]_vars

\* a group of two nodes whose election timeout is TimerTimeoutTicks ticks long
TimerConfig ==
    [election_timeout_ticks |-> TimerTimeoutTicks, heartbeat_interval_ticks |-> 1,
     replication_chunk_size |-> 10]

InitTimer ==
    InitGroup(OnceNodes, TimerConfig, new_unbounded,
              Limits(TimerMaxTerm, TimerMaxElections, MaxLogLen, TimerMaxDeliveries,
                     0, TRUE))

NextTimer ==
    \/ \E i \in DOMAIN node, data \in DataValues : ClientAppend(i, data)
    \/ \E i \in DOMAIN node, m \in msgs : Receive(i, m)
    \/ \E i \in DOMAIN node : TimerTick(i)

SpecTimer == InitTimer /\ [][NextTimer]_vars

\* a group whose only member is the node itself
InitSingle ==
    InitGroup({1}, GroupConfig, new_unbounded,
              Limits(MaxTerm, MaxElections, SingleMaxLogLen, 0, 0, TRUE))

NextSingle ==
    \/ \E i \in DOMAIN node, data \in BoundedDataValues : ClientAppend(i, data)
    \/ \E i \in DOMAIN node : TimerTick(i)
    \/ \E i \in DOMAIN node : Timeout(i)
    \/ \E i \in DOMAIN node : TakeCommitted(i)

SpecSingle == InitSingle /\ [][NextSingle]_vars

\* a group of five nodes (quorum of three) that holds elections
InitVote ==
    InitGroup(VoteNodes, GroupConfig, new_unbounded,
              Limits(VoteMaxTerm, VoteMaxElections, MaxLogLen, VoteMaxDeliveries,
                     0, TRUE))

NextVote ==
    \/ \E i \in DOMAIN node, m \in msgs : Receive(i, m)
    \/ \E i \in DOMAIN node : TimerTick(i)

SpecVote == InitVote /\ [][NextVote]_vars

-----------------------------------------------------------------------------
(* log/tests.rs: an InMemoryLog driven through the Log trait alone.  The log *)
(* is the one of node 1, on which nothing else is called.                   *)

TheLog == node[1].log.log

\* Log::append(log_entry)
LogAppend(log_entry) ==
    /\ mem_last_index(TheLog) < limits.max_log_len
    /\ TheLog.data_len < LogMaxDataLen
    /\ Let(mem_append(TheLog, log_entry), LAMBDA a :
          /\ node' = [node EXCEPT ![1].log.log = a.log]
          /\ Returns([op |-> "Log::append", entry |-> log_entry, ok |-> a.ok]))
    /\ UNCHANGED <<msgs, panicked, taken, elected, committed, consumed, delivered,
                   resets, limits, net>>

\* Log::take_next()
LogTakeNext ==
    /\ Let(mem_take_next(TheLog), LAMBDA t :
          /\ node' = [node EXCEPT ![1].log.log = t.log]
          /\ taken' = IF t.entry = None THEN taken
                       ELSE [taken EXCEPT ![1] =
                                Append(@, [index |-> t.log.last_taken,
                                           entry |-> TheOne(t.entry)])]
          /\ Returns([op |-> "Log::take_next", entry |-> t.entry]))
    /\ UNCHANGED <<msgs, panicked, elected, committed, consumed, delivered, resets,
                   limits, net>>

\* Log::cancel_from(from_log_idx)
LogCancelFrom(from_log_idx) ==
    /\ Let(mem_cancel_from(TheLog, from_log_idx), LAMBDA c :
          /\ node' = [node EXCEPT ![1].log.log = c.log]
          /\ Returns([op |-> "Log::cancel_from", from_log_idx |-> from_log_idx,
                      ok |-> c.ok, cancelled_len |-> c.cancelled_len]))
    /\ UNCHANGED <<msgs, panicked, taken, elected, committed, consumed, delivered,
                   resets, limits, net>>

\* InMemoryLog::new_unbounded() or InMemoryLog::with_capacity(_, LogCapacity)
InitLog ==
    \E data_capacity \in {UnboundedCapacity, LogCapacity} :
        InitGroup({1}, GroupConfig, with_capacity(data_capacity),
                  Limits(0, 0, LogMaxIndex, 0, 0, TRUE))

NextLog ==
    \/ \E log_entry \in LogEntries : LogAppend(log_entry)
    \/ LogTakeNext
    \/ \E from_log_idx \in 0..(LogMaxIndex + 2) : LogCancelFrom(from_log_idx)

SpecLog == InitLog /\ [][NextLog]_vars

-----------------------------------------------------------------------------
(* tests/common.rs: the group the tests run.  run_group ticks every node and *)
(* then delivers every message, and every message sent in answer, before it  *)
(* returns.                                                                  *)

CONFIG ==
    [election_timeout_ticks |-> GroupElectionTimeoutTicks,
     heartbeat_interval_ticks |-> GroupHeartbeatIntervalTicks,
     replication_chunk_size |-> 1024]

isolate(node_id) ==
    [TestRaftGroupConfig_default
        EXCEPT !.drops = {<<Some(node_id), None>>, <<None, Some(node_id)>>}]

is_node_down(config, node_id) == node_id \in config.down

should_drop(config, from, to) ==
    \/ <<Some(from), Some(to)>> \in config.drops
    \/ <<Some(from), None>> \in config.drops
    \/ <<None, Some(to)>> \in config.drops
    \/ from \in config.down
    \/ to \in config.down

\* the messages a call on node `from` returned, as messages.extend queues them
RECURSIVE queued(_, _)
queued(from, out) ==
    IF out = {} THEN <<>>
    ELSE Let(CHOOSE o \in out :
                \A x \in out : o.dest.kind = "Broadcast"
                                \/ (x.dest.kind = "To" /\ o.dest.id <= x.dest.id),
             LAMBDA o : <<[from |-> from, sendable |-> o]>>
                            \o queued(from, out \ {o}))

\* the group g after a call left node i in state s, with the record of a
\* transition to Leader and of the entries the call committed on a Leader
called(g, i, s) ==
    [g EXCEPT
       !.nodes[i] = s,
       !.elected = IF is_leader(s) /\ ~is_leader(g.nodes[i])
                   THEN @ \cup {<<s.current_term, i>>} ELSE @,
       !.committed = IF is_leader(s)
                     THEN @ \cup {<<k, TheOne(get(s.log, k)), s.current_term>> :
                                     k \in (g.nodes[i].log.commit_idx + 1)
                                              ..s.log.commit_idx}
                     ELSE @]

\* the first loop of run_group: timer_tick and append_entries on every node that
\* is not down, in the order of the nodes; the election timer of a node that has
\* reached the highest term of the scenario is not run
RECURSIVE tick_nodes(_, _, _, _)
tick_nodes(g, node_ids, config, rnd) ==
    IF node_ids = {} THEN [g |-> g, messages |-> <<>>]
    ELSE Let(CHOOSE i \in node_ids : \A j \in node_ids : i <= j, LAMBDA node_id :
         IF is_node_down(config, node_id)
            \/ (~is_leader(g.nodes[node_id])
                  /\ g.nodes[node_id].current_term >= limits.max_term)
         THEN tick_nodes(g, node_ids \ {node_id}, config, rnd)
         ELSE Let(timer_tick(g.nodes[node_id], rnd[node_id]), LAMBDA t :
              Let(node_append_entries(t.state, DOMAIN g.nodes \ {node_id}), LAMBDA a :
              Let(tick_nodes(called(g, node_id, a.state), node_ids \ {node_id},
                             config, rnd), LAMBDA rest :
                  [g |-> rest.g,
                   messages |-> queued(node_id, t.out) \o queued(node_id, a.out)
                                   \o rest.messages]))))

\* the body of the second loop of run_group for one message and its receivers:
\* receive unless the message is dropped (a dropped unicast message is kept),
\* then append_entries on the receiver
RECURSIVE deliver(_, _, _, _, _, _)
deliver(g, from, sendable, to_nodes, config, rnd) ==
    IF to_nodes = {} THEN [g |-> g, messages |-> <<>>]
    ELSE Let(CHOOSE i \in to_nodes : \A j \in to_nodes : i <= j, LAMBDA to_node_id :
         Let(IF ~should_drop(config, from, to_node_id)
             THEN Let(receive(g.nodes[to_node_id], sendable.message, from,
                              rnd[to_node_id]), LAMBDA r :
                      [g |-> [called(g, to_node_id, r.state)
                                 EXCEPT !.panicked[to_node_id] = r.panic],
                       messages |-> queued(to_node_id, r.reply)])
             ELSE [g |-> IF sendable.dest.kind = "To"
                         THEN [g EXCEPT !.dropped_messages =
                                  Append(@, [from |-> from, sendable |-> sendable])]
                         ELSE g,
                   messages |-> <<>>], LAMBDA d :
         Let(node_append_entries(d.g.nodes[to_node_id],
                                 DOMAIN g.nodes \ {to_node_id}), LAMBDA a :
         Let(deliver(called(d.g, to_node_id, a.state), from, sendable,
                     to_nodes \ {to_node_id}, config, rnd), LAMBDA rest :
             [g |-> rest.g,
              messages |-> d.messages \o queued(to_node_id, a.out)
                              \o rest.messages]))))

\* the second loop of run_group: the queue is emptied from its front; a panic of
\* a node ends the run
RECURSIVE drain(_, _, _, _)
drain(g, messages, config, rnd) ==
    IF messages = <<>> \/ \E i \in DOMAIN g.nodes : g.panicked[i] # "none" THEN g
    ELSE Let(Head(messages), LAMBDA m :
         Let(deliver(g, m.from, m.sendable,
                     IF m.sendable.dest.kind = "Broadcast"
                     THEN DOMAIN g.nodes \ {m.from}
                     ELSE DOMAIN g.nodes \cap {m.sendable.dest.id},
                     config, rnd), LAMBDA d :
             drain(d.g, Tail(messages) \o d.messages, config, rnd)))

\* run_group(nodes, None, tick, Some(1), config, dropped_messages): the messages
\* kept are queued first; rnd[i] is the value node i draws in this tick
run_group(g, config, rnd) ==
    Let(tick_nodes([g EXCEPT !.dropped_messages = <<>>], DOMAIN g.nodes, config, rnd),
        LAMBDA t : drain(t.g, g.dropped_messages \o t.messages, config, rnd))

\* the group after run_group, from the variables of the model
ran_group(rnd) ==
    run_group([nodes |-> node, elected |-> elected, committed |-> committed,
               panicked |-> panicked, dropped_messages |-> net.dropped_messages],
              net.config, rnd)

\* TestRaftGroup::run_for(1), the body of run_until
RunTick ==
    /\ \A i \in DOMAIN node : Alive(i)
    /\ \E rnd \in [DOMAIN node -> RandomValues(CONFIG)] :
         Let(ran_group(rnd), LAMBDA g :
            /\ node' = g.nodes
            /\ elected' = g.elected
            /\ committed' = g.committed
            /\ panicked' = g.panicked
            /\ net' = [net EXCEPT !.dropped_messages = g.dropped_messages,
                                  !.tick = 1 - @])
    /\ UNCHANGED <<msgs, ret, taken, consumed, delivered, resets, limits>>

\* WF_vars(RunTick): the tests keep running ticks.  RunTick is enabled while
\* no node has panicked, and every RunTick step changes the parity of the tick
FairRunTick ==
    \/ []<>(\E i \in Nodes : ~Alive(i))
    \/ []<>(net.tick = 0) /\ []<>(net.tick = 1)

\* a test calls State::client_request(data) on the Leader i, once for a value
ClientRequest(i, data) ==
    /\ Alive(i)
    /\ is_leader(node[i])
    /\ last_index(node[i].log) < limits.max_log_len
    /\ data \notin net.requests
    /\ net' = [net EXCEPT !.requests = @ \cup {data}]
    /\ Becomes(i, client_request(node[i], data).state)
    /\ UNCHANGED <<msgs, panicked, ret, taken, consumed, delivered, resets, limits>>

\* what take_committed yields from log state ls until it is exhausted
RECURSIVE take_all(_)
take_all(ls) ==
    Let(committed_next(ls), LAMBDA t :
        IF t.entry = None THEN [ls |-> ls, entries |-> <<>>]
        ELSE Let(take_all(t.ls), LAMBDA rest :
                 [ls |-> rest.ls,
                  entries |-> <<[index |-> t.ls.log.last_taken,
                                 entry |-> TheOne(t.entry)]>> \o rest.entries]))

\* TestRaftGroup::take_committed, drained: every node yields every entry it has
\* committed and not yet yielded
GroupTakeCommitted ==
    /\ \A i \in DOMAIN node : Alive(i)
    /\ \E i \in DOMAIN node : committed_next(node[i].log).entry # None
    /\ node' = [i \in DOMAIN node |-> [node[i] EXCEPT !.log = take_all(@).ls]]
    /\ taken' = [i \in DOMAIN node |-> taken[i] \o take_all(node[i].log).entries]
    /\ UNCHANGED <<msgs, panicked, ret, elected, committed, consumed, delivered,
                   resets, limits, net>>

\* WF_vars(GroupTakeCommitted): the tests keep draining take_committed.  The
\* action is enabled while some node has an entry to yield, and a step of it
\* leaves none
FairTakeCommitted ==
    []<>(\A i \in Nodes : committed_next(node[i].log).entry = None)

\* a test sets group.config = config().isolate(i) for the Leader i
Isolate(i) ==
    /\ is_leader(node[i])
    /\ net.partitions < GroupMaxPartitions
    /\ net' = [net EXCEPT !.config = isolate(i), !.partitions = @ + 1]
    /\ UNCHANGED <<node, msgs, panicked, ret, taken, elected, committed, consumed,
                   delivered, resets, limits>>

\* a test sets group.config = config()
Heal ==
    /\ net.config # TestRaftGroupConfig_default
    /\ net' = [net EXCEPT !.config = TestRaftGroupConfig_default]
    /\ UNCHANGED <<node, msgs, panicked, ret, taken, elected, committed, consumed,
                   delivered, resets, limits>>

\* TestRaftGroup::new(3, ..): three nodes with unbounded logs
InitTestGroup ==
    InitGroup(Nodes, CONFIG, new_unbounded,
              Limits(GroupMaxTerm, 0, GroupMaxLogLen, 0, 0, FALSE))

\* a group that stays fully connected
NextTestGroup ==
    \/ RunTick
    \/ \E i \in DOMAIN node, data \in BoundedDataValues : ClientRequest(i, data)
    \/ GroupTakeCommitted

\* the tests keep running ticks and keep draining take_committed
FairTestGroup ==
    /\ FairRunTick
    /\ FairTakeCommitted

SpecTestGroup == InitTestGroup /\ [][NextTestGroup]_vars /\ FairTestGroup

\* the values the clients of tests/commit.rs cancel_uncommitted request
one == <<1>>
two == <<2, 2>>

\* the steps of cancel_uncommitted: "one" is requested of the Leader of the
\* connected group, that Leader is then isolated, "two" is requested of the
\* Leader the others elect, and the partition is healed
NextPartition ==
    \/ RunTick
    \/ \E i \in DOMAIN node : net.partitions = 0 /\ ClientRequest(i, one)
    \/ \E i \in DOMAIN node :
          /\ net.partitions > 0
          /\ ~should_drop(net.config, i, i)
          /\ ClientRequest(i, two)
    \/ GroupTakeCommitted
    \/ \E i \in DOMAIN node : one \in net.requests /\ Isolate(i)
    \/ Heal

\* the tests keep running ticks and keep draining take_committed, and the
\* partition is healed in the end
FairPartition ==
    /\ FairRunTick
    /\ FairTakeCommitted
    /\ WF_vars(Heal)

SpecPartition == InitTestGroup /\ [][NextPartition]_vars /\ FairPartition

-----------------------------------------------------------------------------
(* Properties *)

Entry(i, idx) == get(node[i].log, idx)
CommitIdx(i) == node[i].log.commit_idx
LastIndex(i) == last_index(node[i].log)
Role(i) == node[i].leadership.tag

\* C1: election safety: for every term at most one node is ever Leader with
\* that current_term.  Every Leader is recorded in `elected` with its term, and
\* no two records of one term name different nodes.
C1_ElectionSafety ==
    /\ \A i \in DOMAIN node :
          is_leader(node[i]) => <<node[i].current_term, i>> \in elected
    /\ \A e1, e2 \in elected : e1[1] = e2[1] => e1[2] = e2[2]

\* a node was elected in a term in which another node was a candidate too
C1_Witness ==
    \E e \in elected : \E m \in msgs :
        /\ m.message.rpc = "VoteRequest"
        /\ m.message.term = e[1]
        /\ m.from # e[2]

\* C2: state-machine safety: any two nodes hold the same entry (term and data)
\* at every index at or below the commit_idx of both, and the sequences
\* take_committed has yielded on any two nodes are prefixes of one another.
C2_StateMachineSafety ==
    \A i, j \in DOMAIN node :
        /\ \A idx \in 1..Min(CommitIdx(i), CommitIdx(j)) :
              Entry(i, idx) # None /\ Entry(i, idx) = Entry(j, idx)
        /\ \A k \in 1..Min(Len(taken[i]), Len(taken[j])) : taken[i][k] = taken[j][k]

\* two nodes have committed, and yielded, the same client entry
C2_Witness ==
    \E i, j \in DOMAIN node :
        /\ i # j
        /\ CommitIdx(i) >= 2 /\ CommitIdx(j) >= 1
        /\ Len(taken[i]) >= 1 /\ Len(taken[j]) >= 1

\* C3: on every node take_committed yields the entries of index 1, 2, 3, ... in
\* that order, each once, each the entry the log holds at that index, and never
\* an entry beyond commit_idx.
C3_TakeCommittedInOrder ==
    \A i \in DOMAIN node :
        /\ Len(taken[i]) <= CommitIdx(i)
        /\ node[i].log.log.last_taken = Len(taken[i])
        /\ \A k \in 1..Len(taken[i]) :
              taken[i][k].index = k /\ Some(taken[i][k].entry) = Entry(i, k)

\* a node has yielded two entries while a peer has yielded none of its own
C3_Witness ==
    \E i, j \in DOMAIN node :
        Len(taken[i]) >= 2 /\ CommitIdx(j) >= 1 /\ Len(taken[j]) = 0

\* C4: on every node commit_idx never exceeds last_index and never decreases.
C4_CommitIdxMonotonic ==
    /\ [](\A i \in DOMAIN node : CommitIdx(i) <= LastIndex(i))
    /\ [][\A i \in DOMAIN node :
             node'[i].log.commit_idx >= node[i].log.commit_idx]_vars

\* a leader has committed its whole log of two entries and a follower has
\* raised its commit_idx from an AppendRequest
C4_Witness ==
    \E i, j \in DOMAIN node :
        /\ Role(i) = "Leader" /\ CommitIdx(i) = LastIndex(i) /\ CommitIdx(i) >= 2
        /\ Role(j) = "Follower" /\ CommitIdx(j) >= 1

\* C5: on every node current_term never decreases, whatever call is made.
C5_TermMonotonic ==
    [][\A i \in DOMAIN node : node'[i].current_term >= node[i].current_term]_vars

\* one node reached term 2 by its own timeout and a peer by a message from it
C5_Witness ==
    \E i, j \in DOMAIN node :
        /\ i # j
        /\ node[i].current_term = 2 /\ node[i].voted_for = Some(i)
        /\ node[j].current_term = 2 /\ Role(j) = "Follower"

\* C6: no node ever aborts on the assertion msg_entry_log_idx > commit_idx: a
\* follower never has to truncate its log at or below its commit_idx.
C6_NoTruncateCommitted ==
    \A i \in DOMAIN node : panicked[i] # "truncate at or below commit_idx"

\* a node has replaced, above its commit_idx, the first entry of its log: the
\* log no longer holds the entry the node itself once sent at index 1
C6_Witness ==
    \E i \in DOMAIN node : \E m \in msgs :
        /\ m.from = i
        /\ m.message.rpc = "AppendRequest"
        /\ m.message.prev_log_idx = 0
        /\ Len(m.message.entries) >= 1
        /\ Entry(i, 1) # None
        /\ Entry(i, 1) # Some(m.message.entries[1])
        /\ Alive(i)

\* C7: no node ever aborts on "received append request as leader": a Leader is
\* never delivered an AppendRequest of its own current_term.
C7_NoAppendRequestAsLeader ==
    \A i \in DOMAIN node : panicked[i] # "received append request as leader"

\* the first index of the log of node i holding an entry of term t, or 0
FirstIndexOfTerm(i, t) ==
    IF \E idx \in 1..LastIndex(i) : Entry(i, idx) # None /\ TheOne(Entry(i, idx)).term = t
    THEN CHOOSE idx \in 1..LastIndex(i) :
            /\ Entry(i, idx) # None /\ TheOne(Entry(i, idx)).term = t
            /\ \A k \in 1..(idx - 1) : TheOne(Entry(i, k)).term # t
    ELSE 0

\* a Leader was delivered an AppendRequest (of an earlier term) and rejected it:
\* the rejection carries the Leader's term and a last_log_idx that counts the
\* no-op the node appended when it became Leader
C7_Witness ==
    \E i \in DOMAIN node : \E m \in msgs :
        /\ is_leader(node[i]) /\ Alive(i)
        /\ m.from = i
        /\ m.message.rpc = "AppendResponse"
        /\ ~m.message.success
        /\ m.message.term = node[i].current_term
        /\ FirstIndexOfTerm(i, node[i].current_term) > 0
        /\ m.message.last_log_idx >= FirstIndexOfTerm(i, node[i].current_term)

\* C8: append(data) on a node that is not Leader returns Cancelled with the
\* data submitted, returns no message and leaves the whole state of every node
\* (term, vote, leadership, log, commit_idx) as it was.
C8_AppendCancelled ==
    [][(ret'.op = "append" /\ ~is_leader(node[ret'.node])) =>
          /\ ret'.result = [kind |-> "Cancelled", data |-> ret'.data]
          /\ ret'.out = {}
          /\ node' = node
          /\ msgs' = msgs]_vars

\* append was called on a Candidate, and was cancelled
C8_Witness ==
    /\ ret.op = "append"
    /\ ret.result.kind = "Cancelled"
    /\ Role(ret.node) = "Candidate"

\* C9: when append(data) on a Leader returns LogErr, the state of the node,
\* the log included (prev_index, last_index, every stored entry), is unchanged.
C9_LogErrLeavesStateUnchanged ==
    [][(ret'.op = "append" /\ ret'.result.kind = "LogErr") => node' = node]_vars

\* an append was refused with LogErr
C9_Witness ==
    /\ ret.op = "append"
    /\ ret.result.kind = "LogErr"
    /\ is_leader(node[ret.node])

\* C10: State::receive(msg, from) with a sender that is not a peer of the node
\* (its own id included), whatever the term and the RPC of the message, changes
\* no state and returns no reply; and Node::receive, which chains append_entries
\* for every peer after it, then does what that chain alone does.
C10_UnknownSenderIgnored ==
    /\ [][(ret'.op = "State::receive" /\ ret'.from \notin node[ret'.node].peers) =>
             /\ ret'.out = None
             /\ node' = node
             /\ msgs' = msgs
             /\ panicked' = panicked
             /\ taken' = taken
             /\ elected' = elected]_vars
    /\ [](\A i \in DOMAIN node : \A from \in UnknownSenders \cup {i} : \A m \in msgs :
            \A rnd \in RandomValues(node[i].config) :
               LET r == node_receive(node[i], m.message, from, rnd)
                   a == node_append_entries(node[i], node[i].peers)
               IN r.panic = "none" /\ r.state = a.state /\ r.out = a.out)

\* a node was handed, under its own id, a message of a term above its own
C10_Witness ==
    /\ ret.op = "State::receive"
    /\ ret.from = ret.node
    /\ ret.message.term > node[ret.node].current_term
    /\ ret.message.rpc = "VoteRequest"

\* the VoteResponses a node has emitted that grant the vote
Grants == {m \in msgs : m.message.rpc = "VoteResponse" /\ m.message.vote_granted}

\* C11: a node grants its vote to at most one candidate per term: all the
\* granting VoteResponses it emits with one term go to the same peer, a node
\* that was a candidate in a term (it voted for itself) grants to nobody in
\* that term, a grant of the current term is the vote voted_for holds, and
\* voted_for, once set, changes only when current_term advances.
C11_VoteOncePerTerm ==
    /\ [](\A g1, g2 \in Grants :
             (g1.from = g2.from /\ g1.message.term = g2.message.term)
                => g1.dest = g2.dest)
    /\ [](\A g \in Grants : \A v \in msgs :
             ~(/\ v.message.rpc = "VoteRequest"
               /\ v.from = g.from
               /\ v.message.term = g.message.term))
    /\ [](\A g \in Grants :
             g.message.term = node[g.from].current_term
                => node[g.from].voted_for = Some(g.dest.id))
    /\ [][\A i \in DOMAIN node :
             (node[i].voted_for # None
              /\ node'[i].current_term = node[i].current_term)
                => node'[i].voted_for = node[i].voted_for]_vars

\* a node granted its vote in a term and refused it, in that term, to another
C11_Witness ==
    \E g \in Grants : \E m \in msgs :
        /\ m.message.rpc = "VoteResponse"
        /\ ~m.message.vote_granted
        /\ m.from = g.from
        /\ m.message.term = g.message.term
        /\ m.dest # g.dest

\* what State::leader reports after a message of a newer term from peer from
LeaderAfterNewerTerm(message, from) ==
    IF message.rpc = "AppendRequest" THEN Some(from) ELSE None

\* the state s of a node after a message of a newer term from a peer
SteppedDown(s, message, from) ==
    /\ s.current_term = message.term
    /\ ~is_leader(s)
    /\ leader(s) = <<LeaderAfterNewerTerm(message, from), message.term>>

\* C12: a node in any role that receives from a known peer a VoteRequest,
\* VoteResponse, AppendRequest or AppendResponse whose term is greater than
\* its current_term has afterwards current_term equal to the message's term and
\* is not Leader, and leader() reports no leader, unless the message was an
\* AppendRequest: then it reports the sender. Stated of every Node::receive
\* call made, and of State::receive and Node::receive on every message that can
\* be delivered in a reachable state.
C12_NewerTermStepsDown ==
    /\ [][(ret'.op = "receive"
           /\ ret'.message.term > node[ret'.node].current_term)
             => SteppedDown(node'[ret'.node], ret'.message, ret'.from)]_vars
    /\ [](\A i \in DOMAIN node : \A m \in msgs :
             (Alive(i) /\ m.dest = To(i) /\ m.from \in node[i].peers
              /\ m.message.term > node[i].current_term)
                => \A rnd \in RandomValues(node[i].config) :
                      /\ Let(receive(node[i], m.message, m.from, rnd), LAMBDA r :
                            r.panic = "none" /\ SteppedDown(r.state, m.message, m.from))
                      /\ Let(node_receive(node[i], m.message, m.from, rnd), LAMBDA r :
                            r.panic = "none" /\ SteppedDown(r.state, m.message, m.from)))

\* a Leader received a message of a newer term and is a Follower of that term
C12_Witness ==
    /\ ret.op = "receive"
    /\ delivered = ApiMaxDeliveries
    /\ \E e \in elected : e[2] = ret.node /\ e[1] < ret.message.term
    /\ node[ret.node].current_term = ret.message.term
    /\ node[ret.node].leadership.tag = "Follower"

\* a majority of a group of n nodes
Majority(n) == (n \div 2) + 1

\* the nodes whose vote candidate s has after a VoteResponse from peer from
VotesAfter(s, message, from) ==
    IF message.vote_granted
    THEN s.leadership.votes_granted \cup {from}
    ELSE s.leadership.votes_granted

\* node i, a Candidate, is handed a VoteResponse of its term in this step
CandidateHandedVoteResponse(i) ==
    /\ ret'.op = "receive"
    /\ ret'.node = i
    /\ ret'.message.rpc = "VoteResponse"
    /\ ret'.message.term = node[i].current_term
    /\ node[i].leadership.tag = "Candidate"

\* C13: a Candidate becomes Leader exactly when the number of distinct nodes
\* that granted it their vote in its current term, itself included, reaches
\* floor(n/2)+1 for a group of n nodes: a VoteResponse that denies the vote and
\* a repeated grant of the same peer leave the count as it was, a Candidate
\* never holds a majority without being Leader, and every node that became
\* Leader did so on the grant that completed a majority.
C13_LeaderOnMajority ==
    /\ [][\A i \in DOMAIN node :
             CandidateHandedVoteResponse(i)
                => IF Cardinality(VotesAfter(node[i], ret'.message, ret'.from))
                         >= Majority(Cardinality(node[i].peers) + 1)
                   THEN /\ is_leader(node'[i])
                        /\ node'[i].current_term = node[i].current_term
                   ELSE /\ node'[i].leadership.tag = "Candidate"
                        /\ node'[i].leadership.votes_granted
                              = VotesAfter(node[i], ret'.message, ret'.from)]_vars
    /\ [][\A i \in DOMAIN node :
             (is_leader(node'[i]) /\ ~is_leader(node[i]))
                => /\ CandidateHandedVoteResponse(i)
                   /\ ret'.message.vote_granted
                   /\ ret'.from \notin node[i].leadership.votes_granted
                   /\ Cardinality(node[i].leadership.votes_granted) + 1
                         = Majority(Cardinality(node[i].peers) + 1)]_vars
    /\ [](\A i \in DOMAIN node :
             node[i].leadership.tag = "Candidate"
                => /\ i \in node[i].leadership.votes_granted
                   /\ Cardinality(node[i].leadership.votes_granted)
                         < Majority(Cardinality(node[i].peers) + 1)
                   /\ \A j \in node[i].leadership.votes_granted \ {i} :
                         \E g \in Grants :
                            /\ g.from = j /\ g.dest = To(i)
                            /\ g.message.term = node[i].current_term)
    /\ [](\A e \in elected :
             Cardinality({e[2]} \cup
                         {g.from : g \in {x \in Grants :
                                            /\ x.dest = To(e[2])
                                            /\ x.message.term = e[1]}})
                >= Majority(Cardinality(node[e[2]].peers) + 1))

\* a node of the group of five is Leader of a term in which another node
\* denied it the vote
C13_Witness ==
    \E e \in elected : \E m \in msgs :
        /\ Cardinality(node[e[2]].peers) = 4
        /\ m.message.rpc = "VoteResponse"
        /\ ~m.message.vote_granted
        /\ m.dest = To(e[2])
        /\ m.message.term = e[1]

\* what Node::take_committed yields from log state ls until it is exhausted;
\* idx is the index of the next entry
RECURSIVE Drain(_, _)
Drain(ls, idx) ==
    Let(committed_next(ls), LAMBDA t :
        IF t.entry = None THEN <<>>
        ELSE <<[index |-> idx, entry |-> TheOne(t.entry)]>> \o Drain(t.ls, idx + 1))

\* the entries of the log of node i from index 1 to its last index
WholeLog(i) ==
    [k \in 1..LastIndex(i) |-> [index |-> k, entry |-> TheOne(Entry(i, k))]]

\* C14: in a group whose only member is the node itself, the first election
\* timeout makes the node Leader at term 1 within that call and sends nothing;
\* every following append(d) is accepted and committed within the call; and
\* take_committed yields the no-op of empty data, then the appended data in
\* the order of the calls, and nothing else.
C14_SingleNode ==
    /\ [][\A i \in DOMAIN node :
             (ret'.op \in {"timeout", "timer_tick"} /\ ret'.node = i
              /\ ~is_leader(node[i]))
                => /\ is_leader(node'[i])
                   /\ node[i].current_term = 0 /\ node'[i].current_term = 1
                   /\ ret'.out = {}
                   /\ node'[i].log.commit_idx = 1
                   /\ get(node'[i].log, 1) = Some([term |-> 1, data |-> <<>>])
                   /\ last_index(node'[i].log) = 1]_vars
    /\ [][\A i \in DOMAIN node :
             (ret'.op = "append" /\ ret'.node = i /\ is_leader(node[i]))
                => /\ ret'.result.kind = "Ok"
                   /\ last_index(node'[i].log) = LastIndex(i) + 1
                   /\ node'[i].log.commit_idx = LastIndex(i) + 1
                   /\ get(node'[i].log, LastIndex(i) + 1)
                         = Some([term |-> 1, data |-> ret'.data])
                   /\ \A k \in 1..LastIndex(i) : get(node'[i].log, k) = Entry(i, k)]_vars
    /\ [](\A i \in DOMAIN node :
             /\ msgs = {}
             /\ ~is_leader(node[i]) => (LastIndex(i) = 0 /\ taken[i] = <<>>)
             /\ taken[i] \o Drain(node[i].log, Len(taken[i]) + 1) = WholeLog(i))

\* the node was elected by its timeout, append(d) was called, and
\* take_committed has yielded the no-op and then d
C14_Witness ==
    /\ DOMAIN node = {1}
    /\ node[1].peers = {}
    /\ ret.op = "take_committed"
    /\ LastIndex(1) = 2
    /\ taken[1] = <<[index |-> 1, entry |-> [term |-> 1, data |-> <<>>]],
                    [index |-> 2, entry |-> [term |-> 1, data |-> <<2, 2>>]]>>

\* the log of state new is the log of state old and one entry more, the no-op
\* of the term of new
GrewByNoOp(old, new) ==
    /\ last_index(new.log) = last_index(old.log) + 1
    /\ get(new.log, last_index(new.log))
          = Some([term |-> new.current_term, data |-> <<>>])
    /\ \A k \in 1..last_index(old.log) : get(new.log, k) = get(old.log, k)

\* state new, a Leader, against state old, the same node before its election:
\* the log and the replication state of every peer as become_leader leaves them
NewLeader(old, new) ==
    /\ GrewByNoOp(old, new)
    /\ DOMAIN new.leadership.followers = new.peers
    /\ \A p \in new.peers :
          /\ new.leadership.followers[p].next_idx = last_index(old.log) + 1
          /\ new.leadership.followers[p].match_idx = 0
          /\ new.leadership.followers[p].inflight = None
          /\ new.leadership.followers[p].send_probe = FALSE

\* C15: immediately after every transition of a node to Leader in term T (when
\* the State::receive that elects it returns), its log has grown by exactly
\* the entry {term T, empty data} at old last_index + 1 and the replication
\* state of every peer is next_idx = old last_index + 1, match_idx = 0,
\* inflight = None, send_probe = false; after the Node::receive around it the
\* same holds but for inflight; and the first entry of each term that
\* take_committed yields, the no-op, has an empty payload.
C15_NoOpOnElection ==
    /\ [](\A i \in DOMAIN node : \A m \in msgs :
             (Alive(i) /\ m.dest = To(i) /\ ~is_leader(node[i]))
                => \A rnd \in RandomValues(node[i].config) :
                      Let(receive(node[i], m.message, m.from, rnd), LAMBDA r :
                          is_leader(r.state)
                             => /\ r.state.current_term = node[i].current_term
                                /\ NewLeader(node[i], r.state)))
    /\ [][\A i \in DOMAIN node :
             (is_leader(node'[i]) /\ ~is_leader(node[i]))
                => /\ GrewByNoOp(node[i], node'[i])
                   /\ \A p \in node'[i].peers :
                         /\ node'[i].leadership.followers[p].next_idx = LastIndex(i) + 1
                         /\ node'[i].leadership.followers[p].match_idx = 0
                         /\ node'[i].leadership.followers[p].send_probe = FALSE]_vars
    /\ [](\A i \in DOMAIN node : \A k \in 1..Len(taken[i]) :
             (k = 1 \/ taken[i][k - 1].entry.term # taken[i][k].entry.term)
                => taken[i][k].entry.data = <<>>)

\* a node was elected, the no-op of its term is committed, and take_committed
\* has yielded it on that node
C15_Witness ==
    \E e \in elected :
        /\ is_leader(node[e[2]])
        /\ node[e[2]].current_term = e[1]
        /\ \E k \in 1..Len(taken[e[2]]) :
              /\ k = LastIndex(e[2])
              /\ taken[e[2]][k].entry = [term |-> e[1], data |-> <<>>]

\* C16: log matching: if the logs of two nodes hold at one index entries of the
\* same term, the two logs are identical from index 1 up to and including
\* that index.
C16_LogMatching ==
    \A i, j \in DOMAIN node :
        \A idx \in 1..Min(LastIndex(i), LastIndex(j)) :
            TheOne(Entry(i, idx)).term = TheOne(Entry(j, idx)).term
               => \A k \in 1..idx : Entry(i, k) = Entry(j, k)

\* two nodes hold at index 1 entries of different terms, and a third node
\* holds there an entry of the term of one of them
C16_Witness ==
    \E i, j, k \in DOMAIN node :
        /\ LastIndex(i) >= 1 /\ LastIndex(j) >= 1 /\ LastIndex(k) >= 1
        /\ i # k
        /\ TheOne(Entry(i, 1)).term # TheOne(Entry(j, 1)).term
        /\ TheOne(Entry(i, 1)).term = TheOne(Entry(k, 1)).term

\* C17: leader completeness: an entry a Leader committed at index i in term T
\* is held, at index i, by every Leader of any term greater than T.
C17_LeaderCompleteness ==
    \A c \in committed : \A i \in DOMAIN node :
        (is_leader(node[i]) /\ node[i].current_term > c[3])
           => Entry(i, c[1]) = Some(c[2])

\* an entry was committed in term 1 and a node is Leader of term 2
C17_Witness ==
    \E c \in committed : \E i \in DOMAIN node :
        /\ c[3] = 1
        /\ is_leader(node[i]) /\ node[i].current_term = 2
        /\ <<2, i>> \in elected

\* the AppendRequests of the current term of Leader i to peer p that are
\* emitted and not yet delivered
Undelivered(i, p) ==
    {m \in msgs \ consumed :
        /\ m.from = i /\ m.dest = To(p)
        /\ m.message.rpc = "AppendRequest"
        /\ m.message.term = node[i].current_term}

\* C18: under delayed, reordered and lost (never repeated) delivery, for each
\* Leader and each peer at most one AppendRequest of the Leader's current term
\* is outstanding; in particular at most one is emitted and not yet delivered.
C18_OneOutstanding ==
    \A i \in DOMAIN node : \A p \in node[i].peers :
        is_leader(node[i]) => Cardinality(Undelivered(i, p)) <= 1

\* a node is Leader for the second time, and its one AppendRequest of the
\* current term to its peer is emitted, recorded in inflight and not delivered
C18_Witness ==
    \E i \in DOMAIN node : \E p \in node[i].peers :
        /\ is_leader(node[i])
        /\ \E e \in elected : e[2] = i /\ e[1] < node[i].current_term
        /\ node[i].leadership.followers[p].inflight # None
        /\ Cardinality(Undelivered(i, p)) = 1

\* the reply of a call is an AppendResponse that reports success
Accepted(reply) ==
    \E o \in reply : o.message.rpc = "AppendResponse" /\ o.message.success

\* the result second of a call leaves the log and commit_idx of the result
\* first of the call before it, and replies the same
SameLogAndReply(first, second) ==
    /\ second.panic = "none"
    /\ second.state.log = first.state.log
    /\ last_index(second.state.log) = last_index(first.state.log)
    /\ second.state.log.commit_idx = first.state.log.commit_idx
    /\ second.reply = first.reply

\* C19: delivering the same AppendRequest a second time to a follower,
\* directly after its first delivery was accepted, leaves the follower's log
\* (every entry and last_index) and commit_idx as they were after the first
\* delivery and produces the same success response.  Checked for every
\* AppendRequest that can be delivered in a reachable state.
C19_AppendRequestIdempotent ==
    \A i \in DOMAIN node : \A m \in msgs :
        (Alive(i) /\ m.dest = To(i) /\ m.message.rpc = "AppendRequest")
           => \A rnd \in RandomValues(node[i].config) :
                 Let(receive(node[i], m.message, m.from, rnd), LAMBDA first :
                     (first.panic = "none" /\ Accepted(first.reply))
                        => Let(receive(first.state, m.message, m.from, rnd),
                               LAMBDA second : SameLogAndReply(first, second)))

\* an AppendRequest with an entry can be delivered to a node that holds
\* another entry at that index, and its delivery is accepted and replaces it
C19_Witness ==
    \E i \in DOMAIN node : \E m \in msgs : \E rnd \in RandomValues(node[i].config) :
        /\ Alive(i) /\ m.dest = To(i) /\ m.message.rpc = "AppendRequest"
        /\ Len(m.message.entries) >= 1
        /\ LastIndex(i) >= m.message.prev_log_idx + 1
        /\ Let(receive(node[i], m.message, m.from, rnd), LAMBDA first :
               /\ first.panic = "none" /\ Accepted(first.reply)
               /\ get(first.state.log, m.message.prev_log_idx + 1)
                     # Entry(i, m.message.prev_log_idx + 1))

\* the replication state Leader state s keeps for peer p
Replication(s, p) == s.leadership.followers[p]

\* the AppendResponses of its current term that can be delivered to Leader i
Responses(i) ==
    {m \in msgs :
        /\ m.dest = To(i) /\ m.message.rpc = "AppendResponse"
        /\ m.message.term = node[i].current_term
        /\ m.from \in node[i].peers}

\* states first and second of a Leader, after one and after two deliveries of
\* a response of peer p, hold the same match_idx and next_idx for p
SameIndexes(first, second, p) ==
    /\ is_leader(first) /\ is_leader(second)
    /\ Replication(second, p).match_idx = Replication(first, p).match_idx
    /\ Replication(second, p).next_idx = Replication(first, p).next_idx

\* the same after a second delivery of a failure: match_idx is kept, and
\* next_idx is kept if it stands at msg.match_idx + 1 and is lower, but above
\* msg.match_idx, if not
RewoundIndexes(first, second, p, msg) ==
    /\ is_leader(first) /\ is_leader(second)
    /\ Replication(second, p).match_idx = Replication(first, p).match_idx
    /\ Replication(second, p).next_idx > msg.match_idx
    /\ IF Replication(first, p).next_idx = msg.match_idx + 1
       THEN Replication(second, p).next_idx = Replication(first, p).next_idx
       ELSE Replication(second, p).next_idx < Replication(first, p).next_idx

\* C20 as stated: delivering the same AppendResponse, success or failure, a
\* second time to a Leader, directly after its first delivery, leaves the
\* match_idx and the next_idx of that follower as they were after the first.
C20_AppendResponseIdempotent ==
    \A i \in DOMAIN node : \A m \in Responses(i) :
        (Alive(i) /\ is_leader(node[i]))
           => \A rnd \in RandomValues(node[i].config) :
                 Let(receive(node[i], m.message, m.from, rnd), LAMBDA first :
                 Let(receive(first.state, m.message, m.from, rnd), LAMBDA second :
                     SameIndexes(first.state, second.state, m.from)))

\* C20 amended: a second delivery of a success response leaves match_idx and
\* next_idx (after State::receive, the whole state) as after the first; a
\* second delivery of a failure response leaves match_idx as after the first
\* and rewinds next_idx again, unless it already stands at msg.match_idx + 1.
C20_SuccessIdempotentFailureRewinds ==
    \A i \in DOMAIN node : \A m \in Responses(i) :
        (Alive(i) /\ is_leader(node[i]))
           => \A rnd \in RandomValues(node[i].config) :
                 /\ Let(receive(node[i], m.message, m.from, rnd), LAMBDA first :
                    Let(receive(first.state, m.message, m.from, rnd), LAMBDA second :
                        /\ first.panic = "none" /\ second.panic = "none"
                        /\ IF m.message.success
                           THEN /\ second.state = first.state
                                /\ SameIndexes(first.state, second.state, m.from)
                           ELSE RewoundIndexes(first.state, second.state, m.from,
                                               m.message)))
                 /\ Let(node_receive(node[i], m.message, m.from, rnd), LAMBDA first :
                    Let(node_receive(first.state, m.message, m.from, rnd), LAMBDA second :
                        IF m.message.success
                        THEN SameIndexes(first.state, second.state, m.from)
                        ELSE RewoundIndexes(first.state, second.state, m.from,
                                            m.message)))

\* a Leader has been delivered a failure response, which left the peer in
\* probe mode with next_idx above msg.match_idx + 1, and the response can be
\* delivered again
C20_Witness ==
    \E i \in DOMAIN node : \E m \in Responses(i) :
        /\ Alive(i) /\ is_leader(node[i])
        /\ ~m.message.success
        /\ Replication(node[i], m.from).send_probe
        /\ Replication(node[i], m.from).next_idx > m.message.match_idx + 1

\* the log of node i holds an entry of data d
HoldsData(i, d) == \E k \in 1..LastIndex(i) : TheOne(Entry(i, k)).data = d

\* take_committed on node i has yielded an entry of data d after a no-op
TookAfterNoOp(i, d) ==
    \E k \in 1..Len(taken[i]) :
        /\ taken[i][k].entry.data = d
        /\ \E n \in 1..(k - 1) : taken[i][n].entry.data = <<>>

Took(i, d) == \E k \in 1..Len(taken[i]) : taken[i][k].entry.data = d

\* the Leader a holds "one", which has reached no other node, and is isolated,
\* and a Leader the others elected has committed "two"
CancelUncommitted(a) ==
    /\ net.config = isolate(a)
    /\ is_leader(node[a])
    /\ HoldsData(a, one)
    /\ \A i \in Nodes \ {a} : ~HoldsData(i, one)
    /\ \E b \in Nodes \ {a} :
          /\ is_leader(node[b])
          /\ node[b].current_term > node[a].current_term
          /\ \E k \in 1..CommitIdx(b) : TheOne(Entry(b, k)).data = two

\* C22: in a group of three nodes, once the Leader a holds an entry "one" that
\* has reached no other node, is isolated, and a Leader the other two elected
\* has committed "two": take_committed on a never yields "one" from then on,
\* and, the partition being healed in the end, a eventually is no Leader, holds
\* no entry "one" and has yielded "two".
C22_CancelUncommitted ==
    \A a \in Nodes :
        /\ CancelUncommitted(a) ~> (/\ ~is_leader(node[a])
                                    /\ ~HoldsData(a, one)
                                    /\ Took(a, two))
        /\ [](CancelUncommitted(a) => [](~Took(a, one)))

\* the partition is healed and the node that was isolated as Leader holding
\* "one" has yielded "two", holds no "one" and follows the Leader of the
\* higher term
C22_Witness ==
    \E a \in Nodes :
        /\ net.partitions > 0
        /\ net.config = TestRaftGroupConfig_default
        /\ one \in net.requests
        /\ <<1, a>> \in elected
        /\ ~is_leader(node[a])
        /\ node[a].current_term > 1
        /\ ~HoldsData(a, one)
        /\ \A i \in Nodes : ~Took(i, one)
        /\ Took(a, two)

\* C23: in the group that stays fully connected and delivers every message
\* within the tick in which it was sent, with heartbeat_interval_ticks below
\* election_timeout_ticks: once a node is Leader, every step leaves it Leader,
\* leaves every node's current_term as it was and makes no node a Candidate, so
\* no election timer expires.
C23_StableLeader ==
    [][\A l \in Nodes :
          is_leader(node[l])
              => /\ is_leader(node'[l])
                 /\ \A i \in Nodes :
                       /\ node'[i].current_term = node[i].current_term
                       /\ Role(i) = "Follower" => node'[i].leadership.tag = "Follower"
                       /\ Role(i) = "Follower" => node'[i].leadership.election_ticks > 0]_vars

\* a Leader of a term below the highest term of the scenario, so that the
\* timers of its followers run, has been ticked often enough to have committed
\* and replicated a client's entry
C23_Witness ==
    \E l \in Nodes :
        /\ is_leader(node[l])
        /\ node[l].current_term < GroupMaxTerm
        /\ node[l].config.heartbeat_interval_ticks
               < node[l].config.election_timeout_ticks
        /\ \A i \in Nodes \ {l} :
              /\ Role(i) = "Follower"
              /\ node[i].current_term = node[l].current_term
              /\ CommitIdx(i) >= 2

\* C24: Log::cancel_from(i) with i at or below last_taken_index returns an
\* error and leaves the log unchanged, so that last_taken_index never exceeds
\* last_index and take_next never skips an index (every stored entry at or
\* below last_taken_index is one take_next has yielded).
C24_CancelFromTakenFails ==
    /\ [][\A i \in 0..TheLog.last_taken :
             LogCancelFrom(i) => (~ret'.ok /\ TheLog' = TheLog)]_vars
    /\ [](TheLog.last_taken <= mem_last_index(TheLog))
    /\ [](\A k \in (TheLog.prev_log_idx + 1)..Min(TheLog.last_taken,
                                                     mem_last_index(TheLog)) :
             \E n \in 1..Len(taken[1]) :
                 /\ taken[1][n].index = k
                 /\ Some(taken[1][n].entry) = mem_get(TheLog, k))

\* cancel_from(i) has succeeded for an index i that take_next had yielded, and
\* last_taken_index stands above last_index
C24_Witness ==
    /\ ret.op = "Log::cancel_from"
    /\ ret.ok
    /\ ret.from_log_idx <= TheLog.last_taken
    /\ TheLog.last_taken > mem_last_index(TheLog)
    /\ \E k \in 1..Len(taken[1]) : taken[1][k].index > mem_last_index(TheLog)

\* C25: for a log with last_index = n, cancel_from(n + 1) and cancel_from(n + 2)
\* return an error and leave the log (every entry, prev_index, last_index)
\* unchanged; cancel_from(i) for the index i of a stored entry that take_next
\* has not yielded returns n - i + 1, removes exactly the entries i..n, sets
\* last_index to i - 1 and leaves every entry below i unchanged.
C25_CancelFrom ==
    [][\A i \in 0..(LogMaxIndex + 2) :
          LogCancelFrom(i) =>
              /\ i \in {mem_last_index(TheLog) + 1, mem_last_index(TheLog) + 2}
                    => (~ret'.ok /\ TheLog' = TheLog)
              /\ (/\ i > TheLog.prev_log_idx
                  /\ i > TheLog.last_taken
                  /\ i <= mem_last_index(TheLog))
                    => /\ ret'.ok
                       /\ ret'.cancelled_len = mem_last_index(TheLog) - i + 1
                       /\ mem_last_index(TheLog') = i - 1
                       /\ TheLog'.prev_log_idx = TheLog.prev_log_idx
                       /\ TheLog'.last_taken = TheLog.last_taken
                       /\ \A k \in 0..(LogMaxIndex + 2) :
                             mem_get(TheLog', k) =
                                 IF k < i THEN mem_get(TheLog, k) ELSE None]_vars

\* cancel_from has removed two entries that take_next had not yielded and has
\* left one below them
C25_Witness ==
    /\ ret.op = "Log::cancel_from"
    /\ ret.ok
    /\ ret.cancelled_len = 2
    /\ ret.from_log_idx > TheLog.last_taken
    /\ mem_last_index(TheLog) = ret.from_log_idx - 1
    /\ TheLog.entries # <<>>

\* an append evicts index k of the log, by pop_front
Evicts(k) ==
    /\ k > TheLog.prev_log_idx
    /\ k <= TheLog'.prev_log_idx

\* what holds of eviction: prev_index never exceeds last_taken_index, an append
\* raises prev_index only over indexes at or below last_taken_index, and
\* prev_term is the term of the entry that stood at prev_index when it was
\* evicted (0 while nothing has been evicted)
EvictsUpToLastTaken ==
    /\ [](TheLog.prev_log_idx <= TheLog.last_taken)
    /\ [](TheLog.prev_log_idx = 0 => TheLog.prev_log_term = 0)
    /\ [][TheLog'.prev_log_idx # TheLog.prev_log_idx
             => /\ TheLog'.prev_log_idx > TheLog.prev_log_idx
                /\ TheLog'.prev_log_idx <= TheLog.last_taken
                /\ Some(TheLog'.prev_log_term) =
                       mem_get_term(TheLog, TheLog'.prev_log_idx)]_vars
    /\ [][TheLog'.prev_log_idx = TheLog.prev_log_idx
             => TheLog'.prev_log_term = TheLog.prev_log_term]_vars

\* C26: a bounded InMemoryLog never evicts an entry that take_next has not
\* yielded: after any sequence of append, take_next and cancel_from calls every
\* entry an append evicts is one take_next has yielded at that index,
\* prev_index never exceeds last_taken_index, and prev_term is the term of the
\* entry that stood at prev_index (0 while nothing has been evicted).
C26_EvictsOnlyTaken ==
    /\ EvictsUpToLastTaken
    /\ [][\A k \in 1..LogMaxIndex :
             Evicts(k) => \E n \in 1..Len(taken[1]) :
                             /\ taken[1][n].index = k
                             /\ Some(taken[1][n].entry) = mem_get(TheLog, k)]_vars

\* a bounded log whose first entry was cancelled after take_next had yielded it
\* has evicted the entry appended in its place, which take_next never yielded
C26_Witness ==
    /\ TheLog.data_capacity = LogCapacity
    /\ TheLog.prev_log_idx >= 1
    /\ TheLog.prev_log_term = 2
    /\ \A n \in 1..Len(taken[1]) : taken[1][n].entry.term = 1

\* the data the entries of a sequence hold together
RECURSIVE stored_data_len(_)
stored_data_len(entries) ==
    IF entries = <<>> THEN 0
    ELSE Len(Head(entries).data) + stored_data_len(Tail(entries))

\* the entries of l that remain when its first k entries are evicted
remaining(l, k) == SubSeq(l.entries, k + 1, Len(l.entries))

\* log_entry fits into the bounded log l once some of the entries take_next has
\* yielded are evicted from its front
fits(l, log_entry) ==
    /\ l.data_capacity # UnboundedCapacity
    /\ Len(log_entry.data) <= l.data_capacity
    /\ \E k \in 0..Len(l.entries) :
          /\ l.prev_log_idx + k <= l.last_taken
          /\ stored_data_len(remaining(l, k)) + Len(log_entry.data)
                 <= l.data_capacity

\* C27: in an InMemoryLog built with a data_capacity, append of an entry whose
\* data is no longer than data_capacity succeeds whenever the data of the
\* entries that remain after evicting taken entries from the front, plus the
\* data of the new entry, fits within data_capacity; in particular it succeeds
\* once every stored entry has been taken.
C27_AppendSucceedsWhenFits ==
    [][\A log_entry \in LogEntries :
          (LogAppend(log_entry) /\ fits(TheLog, log_entry))
              => /\ ret'.ok
                 /\ mem_get(TheLog', mem_last_index(TheLog')) = Some(log_entry)
                 /\ stored_data_len(TheLog'.entries) <= TheLog.data_capacity]_vars

\* an append of one byte to a bounded log has failed though take_next had
\* yielded every stored entry: the log is left empty
C27_Witness ==
    /\ TheLog.data_capacity = LogCapacity
    /\ ret.op = "Log::append"
    /\ ~ret.ok
    /\ Len(ret.entry.data) = 1
    /\ TheLog.entries = <<>>
    /\ TheLog.last_taken = TheLog.prev_log_idx
    /\ Len(taken[1]) = TheLog.last_taken

\* the nodes whose match index, as the Leader s knows it, is at least index; the
\* last_index of s counts as its own match
Agree(s, index) ==
    {p \in s.peers : s.leadership.followers[p].match_idx >= index}
        \cup (IF last_index(s.log) >= index THEN {s.node_id} ELSE {})

\* a quorum of the group of the Leader s agrees on index
QuorumAgrees(s, index) ==
    Cardinality(Agree(s, index)) >= quorum_size(Cardinality(s.peers))

\* C28: a Leader raises commit_idx only to an index N whose entry has the
\* Leader's current_term and on which a quorum (its own last_index counting as
\* its match) agrees; while the largest index a quorum agrees on holds an entry
\* of an earlier term the Leader's commit_idx stays as it is, so such an entry
\* is committed only by lying at or below such an N.
C28_LeaderCommitRule ==
    [][\A i \in DOMAIN node :
          is_leader(node'[i]) =>
              /\ node'[i].log.commit_idx # node[i].log.commit_idx
                    => /\ node'[i].log.commit_idx > node[i].log.commit_idx
                       /\ get_term(node'[i].log, node'[i].log.commit_idx) =
                              Some(node'[i].current_term)
                       /\ QuorumAgrees(node'[i], node'[i].log.commit_idx)
              /\ \A M \in 1..last_index(node'[i].log) :
                    (/\ QuorumAgrees(node'[i], M)
                     /\ ~QuorumAgrees(node'[i], M + 1)
                     /\ get_term(node'[i].log, M) # Some(node'[i].current_term))
                        => node'[i].log.commit_idx = node[i].log.commit_idx]_vars

\* a Leader knows that a quorum holds an entry of an earlier term above its
\* commit_idx, and has left commit_idx where it was
C28_Witness ==
    \E i \in DOMAIN node :
        /\ is_leader(node[i])
        /\ \E M \in 1..last_index(node[i].log) :
              /\ M > node[i].log.commit_idx
              /\ QuorumAgrees(node[i], M)
              /\ get_term(node[i].log, M) # Some(node[i].current_term)
        /\ \E p \in node[i].peers : node[i].leadership.followers[p].match_idx > 0

\* the VoteRequest message of peer from asks the node in state s for a vote it
\* may give: the terms are equal once s has taken a newer term, the log of the
\* candidate is at least as up to date as the log of s, and s has voted, in
\* that term, for nobody or for from
MayGrant(s, message, from) ==
    /\ message.term >= s.current_term
    /\ \/ message.last_log_term > last_term(s.log)
       \/ /\ message.last_log_term = last_term(s.log)
          /\ message.last_log_idx >= last_index(s.log)
    /\ \/ message.term > s.current_term
       \/ s.voted_for = None
       \/ s.voted_for = Some(from)

\* the VoteRequest messages that can be delivered to node i from a peer
VoteRequestsTo(i) ==
    {m \in msgs : /\ m.dest = To(i)
                  /\ m.message.rpc = "VoteRequest"
                  /\ m.from \in node[i].peers}

\* C29: for every VoteRequest from a known peer exactly one VoteResponse is
\* returned, addressed to the sender and carrying the receiver's current_term
\* after the term update, with vote_granted true if and only if the terms are
\* equal, the candidate's log is at least as up to date and voted_for is None
\* or the sender; a request of a stale term is answered with
\* vote_granted = false and changes no state.  Checked of State::receive and
\* of Node::receive for every VoteRequest that can be delivered in a reachable
\* state.
C29_VoteRequestAnswered ==
    \A i \in DOMAIN node : \A m \in VoteRequestsTo(i) :
        Alive(i) =>
            \A rnd \in RandomValues(node[i].config) :
               /\ Let(receive(node[i], m.message, m.from, rnd), LAMBDA r :
                      /\ r.panic = "none"
                      /\ r.state.current_term =
                             Max(node[i].current_term, m.message.term)
                      /\ r.reply =
                             Some(Sendable(
                                 VoteResponseMsg(r.state.current_term,
                                                 MayGrant(node[i], m.message, m.from)),
                                 To(m.from)))
                      /\ m.message.term < node[i].current_term
                            => r.state = node[i])
               /\ Let(node_receive(node[i], m.message, m.from, rnd), LAMBDA r :
                      /\ {o \in r.out : o.message.rpc = "VoteResponse"} =
                             {Sendable(
                                 VoteResponseMsg(r.state.current_term,
                                                 MayGrant(node[i], m.message, m.from)),
                                 To(m.from))}
                      /\ m.message.term < node[i].current_term
                            => r.state = node[i])

\* three VoteRequests can be delivered: one of a stale term, one of a candidate
\* whose log is behind the receiver's, and one the receiver grants
C29_Witness ==
    /\ \E i \in DOMAIN node : \E m \in VoteRequestsTo(i) :
          Alive(i) /\ m.message.term < node[i].current_term
    /\ \E i \in DOMAIN node : \E m \in VoteRequestsTo(i) :
          /\ Alive(i)
          /\ m.message.term >= node[i].current_term
          /\ m.message.last_log_term < last_term(node[i].log)
    /\ \E i \in DOMAIN node : \E m \in VoteRequestsTo(i) :
          Alive(i) /\ MayGrant(node[i], m.message, m.from)

\* the VoteResponse and AppendResponse messages that can be delivered to node i
\* from a peer and whose term is lower than the current_term of i
StaleResponsesTo(i) ==
    {m \in msgs : /\ m.dest = To(i)
                  /\ m.message.rpc \in {"VoteResponse", "AppendResponse"}
                  /\ m.from \in node[i].peers
                  /\ m.message.term < node[i].current_term}

\* C30: a VoteResponse or AppendResponse whose term is lower than the
\* receiver's current_term changes no state (votes_granted, leadership, the
\* replication state of every follower, commit_idx, term) and produces no
\* reply; a vote granted for an earlier term does not count towards the current
\* election.  Checked of State::receive and of Node::receive for every such
\* response that can be delivered in a reachable state.
C30_StaleResponseDropped ==
    \A i \in DOMAIN node : \A m \in StaleResponsesTo(i) :
        Alive(i) =>
            \A rnd \in RandomValues(node[i].config) :
               /\ Let(receive(node[i], m.message, m.from, rnd), LAMBDA r :
                      /\ r.panic = "none"
                      /\ r.reply = None
                      /\ r.state = node[i])
               /\ Let(node_receive(node[i], m.message, m.from, rnd), LAMBDA r :
                      /\ r.panic = "none"
                      /\ r.out = {}
                      /\ r.state = node[i])

\* a Candidate can be delivered a vote granted by a peer for an earlier term,
\* which would complete its quorum if it counted, and a successful
\* AppendResponse of the term in which it was Leader
C30_Witness ==
    \E i \in DOMAIN node :
        /\ Alive(i)
        /\ node[i].leadership.tag = "Candidate"
        /\ \E m \in StaleResponsesTo(i) :
              /\ m.message.rpc = "VoteResponse"
              /\ m.message.vote_granted
              /\ m.from \notin node[i].leadership.votes_granted
              /\ Cardinality(node[i].leadership.votes_granted \cup {m.from})
                     >= quorum_size(Cardinality(node[i].peers))
        /\ \E m \in StaleResponsesTo(i) :
              /\ m.message.rpc = "AppendResponse"
              /\ m.message.success
              /\ m.message.match_idx > 0

\* the AppendRequest messages node i may receive from a peer: those that can be
\* delivered, each with every prev_log_term
AppendRequestsTo(i) ==
    {[from |-> m.from, message |-> [m.message EXCEPT !.prev_log_term = t]] :
        m \in {x \in msgs : /\ x.dest = To(i)
                             /\ x.message.rpc = "AppendRequest"
                             /\ x.from \in node[i].peers},
        t \in 0..limits.max_term}

\* the log of s agrees with the AppendRequest message at prev_log_idx
LogOk(s, message) ==
    \/ message.prev_log_idx = 0
    \/ /\ message.prev_log_idx >= prev_index(s.log)
       /\ message.prev_log_idx <= last_index(s.log)
       /\ get_term(s.log, message.prev_log_idx) = Some(message.prev_log_term)

\* s rejects the AppendRequest message
Rejects(s, message) ==
    \/ message.term < s.current_term
    \/ ~LogOk(s, message)

\* C31: a node that receives an AppendRequest with msg.term < current_term, or
\* with msg.term = current_term (after the term update) and log_ok false,
\* replies AppendResponse{success = false, match_idx = its prev_index,
\* last_log_idx = its last_index} carrying its current_term and leaves its log
\* and commit_idx unchanged; log_ok is true whenever prev_log_idx = 0, whatever
\* prev_log_term is, and otherwise requires the local term at prev_log_idx to
\* equal prev_log_term.  A request that is not rejected is answered with
\* success.
C31_AppendRequestRejected ==
    \A i \in DOMAIN node : \A m \in AppendRequestsTo(i) :
        Alive(i) =>
            \A rnd \in RandomValues(node[i].config) :
                Let(receive(node[i], m.message, m.from, rnd), LAMBDA r :
                    /\ r.panic = "none"
                    /\ Rejects(node[i], m.message)
                          => /\ r.reply =
                                   Some(Sendable(
                                       AppendResponseMsg(
                                           Max(node[i].current_term, m.message.term),
                                           FALSE, prev_index(node[i].log),
                                           last_index(node[i].log)),
                                       To(m.from)))
                             /\ r.state.current_term =
                                   Max(node[i].current_term, m.message.term)
                             /\ r.state.log = node[i].log
                    /\ ~Rejects(node[i], m.message) => Accepted(r.reply))

\* a node can receive an AppendRequest of a stale term, one whose prev_log_term
\* differs from the term the node holds at prev_log_idx, and one with
\* prev_log_idx = 0 and a prev_log_term other than 0, which it accepts
C31_Witness ==
    /\ \E i \in DOMAIN node : \E m \in AppendRequestsTo(i) :
          Alive(i) /\ m.message.term < node[i].current_term
    /\ \E i \in DOMAIN node : \E m \in AppendRequestsTo(i) :
          /\ Alive(i)
          /\ m.message.term >= node[i].current_term
          /\ m.message.prev_log_idx \in 1..last_index(node[i].log)
          /\ ~LogOk(node[i], m.message)
    /\ \E i \in DOMAIN node : \E m \in AppendRequestsTo(i) :
          /\ Alive(i)
          /\ m.message.prev_log_idx = 0
          /\ m.message.prev_log_term # 0
          /\ ~Rejects(node[i], m.message)

\* the indexes at which the AppendRequest message holds an entry whose term
\* differs from the term of the entry s holds there
Conflicts(s, message) ==
    {k \in (message.prev_log_idx + 1)..(message.prev_log_idx + Len(message.entries)) :
        /\ k <= last_index(s.log)
        /\ get_term(s.log, k) # Some(message.entries[k - message.prev_log_idx].term)}

\* the log after follows from the log before by accepting the AppendRequest
\* message: what lies below the first conflict is kept, with no conflict
\* nothing is removed, and the entries of the message stand at their indexes
AcceptedInto(before, after, message) ==
    LET msg_last_log_idx == message.prev_log_idx + Len(message.entries)
        kept == IF Conflicts(before, message) = {} THEN last_index(before.log)
                ELSE Min(last_index(before.log),
                         (CHOOSE c \in Conflicts(before, message) :
                             \A d \in Conflicts(before, message) : c <= d) - 1)
    IN /\ \A j \in 1..Len(message.entries) :
             get(after.log, message.prev_log_idx + j) = Some(message.entries[j])
       /\ \A k \in 1..kept : get(after.log, k) = get(before.log, k)
       /\ last_index(after.log) = Max(kept, msg_last_log_idx)
       /\ prev_index(after.log) = prev_index(before.log)
       /\ after.log.log.last_taken = before.log.log.last_taken

\* C32: after a follower accepts an AppendRequest (msg.term = current_term,
\* log_ok) and the log reports no error, its log holds at every index
\* prev_log_idx + j, j in 1..len(entries), the j-th entry of the request;
\* entries already present with the same term are left untouched, the log is
\* truncated only from the first index whose term differs from the request's
\* entry, entries beyond prev_log_idx + len(entries) are kept when there is no
\* conflict, and the reply is success with
\* match_idx = min(prev_log_idx + len(entries), last_index).  Checked for every
\* AppendRequest that can be delivered in a reachable state.
C32_AppendRequestAccepted ==
    \A i \in DOMAIN node : \A m \in msgs :
        (/\ Alive(i) /\ m.dest = To(i) /\ m.message.rpc = "AppendRequest"
         /\ m.from \in node[i].peers
         /\ ~Rejects(node[i], m.message))
           => \A rnd \in RandomValues(node[i].config) :
                 Let(receive(node[i], m.message, m.from, rnd), LAMBDA r :
                     /\ r.panic = "none"
                     /\ AcceptedInto(node[i], r.state, m.message)
                     /\ r.reply =
                           Some(Sendable(
                               AppendResponseMsg(
                                   r.state.current_term, TRUE,
                                   Min(m.message.prev_log_idx + Len(m.message.entries),
                                       last_index(r.state.log)),
                                   last_index(r.state.log)),
                               To(m.from))))

\* the AppendRequest messages node i would accept
AcceptableBy(i) ==
    {m \in msgs : /\ m.dest = To(i)
                  /\ m.message.rpc = "AppendRequest"
                  /\ m.from \in node[i].peers
                  /\ ~Rejects(node[i], m.message)}

\* a node can accept an AppendRequest that conflicts with an entry it holds,
\* and another can accept one all of whose entries it holds already
C32_Witness ==
    /\ \E i \in DOMAIN node : \E m \in AcceptableBy(i) :
          Alive(i) /\ Conflicts(node[i], m.message) # {}
    /\ \E i \in DOMAIN node : \E m \in AcceptableBy(i) :
          /\ Alive(i)
          /\ Conflicts(node[i], m.message) = {}
          /\ Len(m.message.entries) > 0
          /\ last_index(node[i].log) >=
                 m.message.prev_log_idx + Len(m.message.entries)

\* the last index of the log of the leader that the AppendRequest message covers
LastEntry(message) == message.prev_log_idx + Len(message.entries)

\* C33: after accepting an AppendRequest a follower's commit_idx equals
\* max(old commit_idx, min(msg.leader_commit, last index processed from the
\* request)), so that it is never raised above prev_log_idx + len(entries); and
\* every AppendRequest a leader emits carries
\* leader_commit = min(leader commit_idx, prev_log_idx + len(entries)).  The
\* first is checked for every AppendRequest a node would accept, taken with
\* every leader_commit up to one beyond what the request covers.
C33_CommitFromLeader ==
    /\ [](\A i \in DOMAIN node : \A m \in AcceptableBy(i) :
             Alive(i) =>
                 \A rnd \in RandomValues(node[i].config) :
                 \A leader_commit \in 0..(LastEntry(m.message) + 1) :
                     Let(receive(node[i],
                                 [m.message EXCEPT !.leader_commit = leader_commit],
                                 m.from, rnd), LAMBDA r :
                         /\ r.panic = "none"
                         /\ r.state.log.commit_idx =
                               Max(node[i].log.commit_idx,
                                   Min(leader_commit, LastEntry(m.message)))
                         /\ r.state.log.commit_idx > node[i].log.commit_idx
                               => r.state.log.commit_idx <= LastEntry(m.message)))
    /\ [][\A m \in msgs' \ msgs :
             m.message.rpc = "AppendRequest"
                => /\ is_leader(node'[m.from])
                   /\ m.message.term = node'[m.from].current_term
                   /\ m.message.leader_commit =
                          Min(node'[m.from].log.commit_idx, LastEntry(m.message))]_vars

\* a leader has emitted an AppendRequest whose leader_commit lies below what
\* the request covers and one whose leader_commit is capped below its own
\* commit_idx, and a follower can accept a request that raises its commit_idx
\* and one whose leader_commit lies below its commit_idx
C33_Witness ==
    /\ \E m \in msgs :
          /\ m.message.rpc = "AppendRequest"
          /\ m.message.leader_commit > 0
          /\ m.message.leader_commit < LastEntry(m.message)
    /\ \E m \in msgs :
          /\ m.message.rpc = "AppendRequest"
          /\ is_leader(node[m.from])
          /\ m.message.term = node[m.from].current_term
          /\ m.message.leader_commit = LastEntry(m.message)
          /\ m.message.leader_commit < node[m.from].log.commit_idx
    /\ \E i \in DOMAIN node : \E m \in AcceptableBy(i) :
          /\ Alive(i)
          /\ m.message.leader_commit > node[i].log.commit_idx
          /\ LastEntry(m.message) > node[i].log.commit_idx
    /\ \E i \in DOMAIN node : \E m \in AcceptableBy(i) :
          Alive(i) /\ m.message.leader_commit < node[i].log.commit_idx

\* the summed entry_len of the n entries of the log ls from index first on
RECURSIVE run_len(_, _, _)
run_len(ls, first, n) ==
    IF n = 0 THEN 0
    ELSE entry_len(TheOne(get(ls, first + n - 1))) + run_len(ls, first, n - 1)

\* the number of entries of the chunk of the log of s that starts at next_idx:
\* the longest run that fits into replication_chunk_size, and one entry when
\* the first alone does not fit
chunk_entries(s, next_idx) ==
    LET fit == {n \in 1..(last_index(s.log) - next_idx + 1) :
                   run_len(s.log, next_idx, n) <= s.config.replication_chunk_size}
    IN IF fit = {} THEN 1 ELSE CHOOSE n \in fit : \A k \in fit : k <= n

\* C34: every AppendRequest with entries carries a contiguous run of the
\* leader's log that starts at the next_idx of the peer and is the longest
\* prefix whose summed entry_len does not exceed replication_chunk_size, or
\* exactly one entry when the first alone exceeds it; after the success
\* response to it the next request starts at the entry that follows the run.
C34_ChunkedReplication ==
    /\ [][\A m \in msgs' \ msgs :
             (m.message.rpc = "AppendRequest" /\ m.message.entries # <<>>)
                => LET s == node'[m.from]
                       next_idx == m.message.prev_log_idx + 1
                   IN /\ is_leader(s)
                      /\ s.leadership.followers[m.dest.id].next_idx = next_idx
                      /\ Len(m.message.entries) = chunk_entries(s, next_idx)
                      /\ \A j \in 1..Len(m.message.entries) :
                            get(s.log, next_idx + j - 1) = Some(m.message.entries[j])
                      /\ s.leadership.followers[m.dest.id].inflight =
                            Some(LastEntry(m.message))]_vars
    /\ [](\A i \in DOMAIN node : \A m \in msgs :
             (/\ Alive(i) /\ is_leader(node[i]) /\ m.dest = To(i)
              /\ m.message.rpc = "AppendResponse"
              /\ m.message.success
              /\ m.message.term = node[i].current_term
              /\ m.from \in node[i].peers
              /\ node[i].leadership.followers[m.from].inflight =
                     Some(m.message.match_idx)
              /\ m.message.match_idx >= node[i].leadership.followers[m.from].next_idx)
                => \A rnd \in RandomValues(node[i].config) :
                      Let(node_receive(node[i], m.message, m.from, rnd), LAMBDA r :
                          /\ r.panic = "none"
                          /\ r.state.leadership.followers[m.from].next_idx =
                                m.message.match_idx + 1
                          /\ \A o \in r.out :
                                (o.dest = To(m.from) /\ o.message.rpc = "AppendRequest")
                                   => o.message.prev_log_idx = m.message.match_idx))

\* a leader has sent a request with two entries that fill the chunk while its
\* log held more, a request with the one entry that exceeds the chunk by
\* itself, and a request that starts where an earlier run to that peer ended
C34_Witness ==
    /\ \E m \in msgs :
          /\ m.message.rpc = "AppendRequest"
          /\ Len(m.message.entries) = 2
          /\ entry_len(m.message.entries[1]) + entry_len(m.message.entries[2])
                 = ChunkSize
          /\ is_leader(node[m.from])
          /\ last_index(node[m.from].log) > LastEntry(m.message)
    /\ \E m \in msgs :
          /\ m.message.rpc = "AppendRequest"
          /\ Len(m.message.entries) = 1
          /\ entry_len(m.message.entries[1]) > ChunkSize
    /\ \E m, n \in msgs :
          /\ m.message.rpc = "AppendRequest"
          /\ n.message.rpc = "AppendRequest"
          /\ m.dest = n.dest
          /\ Len(m.message.entries) = 2
          /\ n.message.entries # <<>>
          /\ n.message.prev_log_idx = LastEntry(m.message)

\* the failure AppendResponses of its current term that can be delivered to
\* Leader i
Rejections(i) == {m \in Responses(i) : ~m.message.success}

\* the next_idx that handle_append_response computes first from a failure
\* response msg of peer p: max(match_idx + 1, min(next_idx - 1, last_log_idx + 1))
clamped_next_idx(s, p, msg) ==
    Max(msg.match_idx + 1,
        Min(SatSub(Replication(s, p).next_idx, 1), msg.last_log_idx + 1))

\* the next_idx the Leader is left with: the lowest index above msg.match_idx
\* from which the entries up to the clamped index fit into one chunk
rewound_next_idx(s, p, msg) ==
    LET clamped == clamped_next_idx(s, p, msg)
        within == {k \in (msg.match_idx + 1)..clamped :
                     /\ clamped <= last_index(s.log)
                     /\ run_len(s.log, k + 1, clamped - k)
                            <= s.config.replication_chunk_size}
    IN IF within = {} THEN clamped
       ELSE CHOOSE k \in within : \A j \in within : k <= j

\* the Leader after is the Leader before with next_idx for peer p set, its
\* send_probe set and its inflight cleared
Probing(before, after, p, next_idx) ==
    /\ is_leader(after)
    /\ Replication(after, p) =
          [Replication(before, p) EXCEPT !.next_idx = next_idx,
                                         !.send_probe = TRUE,
                                         !.inflight = None]

\* C35 as stated: when a Leader whose next_idx for a follower is n processes a
\* failure AppendResponse of that follower carrying last_log_idx = L, the
\* next_idx afterwards is max(match_idx + 1, min(n - 1, L + 1)), send_probe is
\* true and inflight is cleared.
C35_FailureClampsNextIdx ==
    \A i \in DOMAIN node : \A m \in Rejections(i) :
        (Alive(i) /\ is_leader(node[i]))
           => \A rnd \in RandomValues(node[i].config) :
                 Let(receive(node[i], m.message, m.from, rnd), LAMBDA r :
                     /\ r.panic = "none"
                     /\ Probing(node[i], r.state, m.from,
                                clamped_next_idx(node[i], m.from, m.message)))

\* C35 amended: the next_idx afterwards is at most
\* max(msg.match_idx + 1, min(n - 1, L + 1)) and above msg.match_idx: it is that
\* index rewound further while the entries between fit into
\* replication_chunk_size; send_probe is true, inflight is cleared, and
\* match_idx is left as it was.
C35_FailureRewindsNextIdx ==
    \A i \in DOMAIN node : \A m \in Rejections(i) :
        (Alive(i) /\ is_leader(node[i]))
           => \A rnd \in RandomValues(node[i].config) :
                 Let(receive(node[i], m.message, m.from, rnd), LAMBDA r :
                     /\ r.panic = "none"
                     /\ Probing(node[i], r.state, m.from,
                                rewound_next_idx(node[i], m.from, m.message))
                     /\ Replication(r.state, m.from).next_idx > m.message.match_idx
                     /\ Replication(r.state, m.from).next_idx
                           <= clamped_next_idx(node[i], m.from, m.message))

\* a Leader can be delivered a failure response that clamps next_idx to the
\* end of the log of the follower and from there rewinds it by a chunk
C35_Witness ==
    \E i \in DOMAIN node : \E m \in Rejections(i) :
        /\ Alive(i) /\ is_leader(node[i])
        /\ m.message.last_log_idx + 1 < Replication(node[i], m.from).next_idx
        /\ clamped_next_idx(node[i], m.from, m.message) = m.message.last_log_idx + 1
        /\ rewound_next_idx(node[i], m.from, m.message)
              < clamped_next_idx(node[i], m.from, m.message)

\* the number of timer_tick calls after which a node in state s that receives no
\* message starts an election
RECURSIVE ticks_until_election(_)
ticks_until_election(s) ==
    IF is_leader(s) THEN 0
    ELSE Let(timer_tick(s, 0), LAMBDA r :
            IF r.state.current_term > s.current_term THEN 1
            ELSE 1 + ticks_until_election(r.state))

\* the call has set the election timer of the node: timeout makes a Candidate,
\* update_term deposes a Leader, a Follower grants its vote, or a Candidate or
\* Follower handles an AppendRequest of its term
TimerSet(before, after, call) ==
    /\ ~is_leader(after)
    /\ \/ /\ call.op = "timer_tick"
          /\ ~is_leader(before)
          /\ after.current_term > before.current_term
       \/ /\ call.op = "receive"
          /\ \/ is_leader(before) /\ call.message.term > before.current_term
             \/ /\ call.message.rpc = "VoteRequest"
                /\ \E o \in call.out : o.message.rpc = "VoteResponse"
                                       /\ o.message.vote_granted
             \/ /\ call.message.rpc = "AppendRequest"
                /\ call.message.term >= before.current_term

TimesOutInRange(s) ==
    /\ s.config.election_timeout_ticks <= ticks_until_election(s)
    /\ ticks_until_election(s) <= 2 * s.config.election_timeout_ticks - 1

\* C36: with election_timeout_ticks = k, a Follower or Candidate that receives no
\* message starts an election on the n-th timer_tick after its election timer
\* was last set (by State::new or by a call), with k <= n <= 2k - 1
C36_ElectionTimeout ==
    /\ \A i \in DOMAIN node : TimesOutInRange(node[i])
    /\ [][\A i \in DOMAIN node :
             (ret'.op \in {"timer_tick", "receive"} /\ ret'.node = i
              /\ TimerSet(node[i], node'[i], ret'))
                 => TimesOutInRange(node'[i])]_vars

\* a Follower whose timer a message of its leader set has since been ticked
\* 2k - 2 times without an election, and the next tick starts one; the other
\* node timed out on the k-th tick after it received a message
C36_Witness ==
    \E i \in DOMAIN node :
        /\ ret.op = "timer_tick" /\ ret.node = i
        /\ node[i].leadership.tag = "Follower"
        /\ node[i].leadership.leader # None
        /\ node[i].leadership.random_election_ticks
               = 2 * node[i].config.election_timeout_ticks - 1
        /\ node[i].leadership.election_ticks = 1
        /\ ticks_until_election(node[i]) = 1

\* the messages of rpc deliverable to node i from one of its peers
DeliverableTo(i, rpc) ==
    {m \in msgs : m.dest = To(i) /\ m.message.rpc = rpc /\ m.from \in node[i].peers}

\* the log after has every entry, prev_index, last_index and commit_idx of the
\* log before
SameLog(before, after) ==
    /\ after.log = before.log
    /\ prev_index(after.log) = prev_index(before.log)
    /\ last_index(after.log) = last_index(before.log)
    /\ \A k \in 1..last_index(before.log) : get(after.log, k) = get(before.log, k)
    /\ after.log.commit_idx = before.log.commit_idx

\* C37: for a node that is not Leader before a call and not Leader after it,
\* timer_tick and receive of a VoteRequest, VoteResponse or AppendResponse leave
\* its log (every entry, prev_index, last_index) and commit_idx unchanged; an
\* AppendRequest modifies the log of a non-leader only if it is accepted, and
\* then keeps what lies at and below prev_log_idx.  Checked for every call that
\* can be made in a reachable state.
C37_NonLeaderLogFrame ==
    \A i \in DOMAIN node :
       (Alive(i) /\ ~is_leader(node[i])) =>
          \A rnd \in RandomValues(node[i].config) :
             /\ Let(timer_tick(node[i], rnd), LAMBDA r :
                   ~is_leader(r.state) => SameLog(node[i], r.state))
             /\ \A rpc \in {"VoteRequest", "VoteResponse", "AppendResponse"} :
                   \A m \in DeliverableTo(i, rpc) :
                      Let(receive(node[i], m.message, m.from, rnd), LAMBDA r :
                         (r.panic = "none" /\ ~is_leader(r.state))
                            => SameLog(node[i], r.state))
             /\ \A m \in DeliverableTo(i, "AppendRequest") :
                   Let(receive(node[i], m.message, m.from, rnd), LAMBDA r :
                      (r.panic = "none" /\ ~SameLog(node[i], r.state))
                         => /\ ~is_leader(r.state)
                            /\ Accepted(r.reply)
                            /\ prev_index(r.state.log) = prev_index(node[i].log)
                            /\ \A k \in 1..m.message.prev_log_idx :
                                  get(r.state.log, k) = get(node[i].log, k))

\* a non-leader that holds an entry can time out into a Candidate, can receive a
\* VoteRequest, a VoteResponse and an AppendResponse, and can
\* accept an AppendRequest that truncates its log
C37_Witness ==
    \E i \in DOMAIN node :
        /\ Alive(i) /\ ~is_leader(node[i])
        /\ last_index(node[i].log) > 0
        /\ ~is_leader(timer_tick(node[i], 0).state)
        /\ timer_tick(node[i], 0).state.current_term > node[i].current_term
        /\ DeliverableTo(i, "VoteRequest") # {}
        /\ DeliverableTo(i, "VoteResponse") # {}
        /\ DeliverableTo(i, "AppendResponse") # {}
        /\ \E m \in DeliverableTo(i, "AppendRequest") :
              /\ ~Rejects(node[i], m.message)
              /\ Conflicts(node[i], m.message) # {}

\* the indexes Leader s keeps for follower p are ordered
IndexesOrdered(s, p) ==
    /\ Replication(s, p).match_idx < Replication(s, p).next_idx
    /\ Replication(s, p).next_idx <= last_index(s.log) + 1

\* C38: for every follower tracked by a Leader, in every reachable state and
\* under any order and duplication of the AppendResponses delivered in the
\* leader's term, match_idx < next_idx <= last_index + 1 of the leader
C38_MatchBelowNext ==
    \A i \in DOMAIN node :
        is_leader(node[i]) =>
            \A p \in DOMAIN node[i].leadership.followers : IndexesOrdered(node[i], p)

\* the half of C38 that bounds next_idx alone: it is at least 1 and at most one
\* beyond the leader's last index
NextIdxInLog ==
    \A i \in DOMAIN node :
        is_leader(node[i]) =>
            \A p \in DOMAIN node[i].leadership.followers :
                /\ Replication(node[i], p).next_idx >= 1
                /\ Replication(node[i], p).next_idx <= last_index(node[i].log) + 1

\* a Leader that has recorded a match for a follower can be delivered a failure
\* response of its term from that follower which reports a lower match_idx
C38_Witness ==
    \E i \in DOMAIN node : \E m \in Rejections(i) :
        /\ Alive(i) /\ is_leader(node[i])
        /\ Replication(node[i], m.from).match_idx > m.message.match_idx
        /\ IndexesOrdered(node[i], m.from)
        /\ ~IndexesOrdered(receive(node[i], m.message, m.from, 0).state, m.from)

\* the logs of states s and t hold the same entry (term and data) at every index
\* 1..m
AgreeUpTo(s, t, m) ==
    \A k \in 1..m : get(s.log, k) # None /\ get(s.log, k) = get(t.log, k)

\* the success AppendResponses of the set sent
Successes(sent) ==
    {m \in sent : m.message.rpc = "AppendResponse" /\ m.message.success}

\* C39: whenever a Leader L of term T has recorded match_idx = m for a peer P,
\* P's log was identical to L's at every index 1..m when P produced the
\* response (every success response P emits for the Leader of its term carries
\* a match_idx up to which the two logs are identical), and for as long as P's
\* current_term is still T the two logs agree at 1..m, whichever responses were
\* delayed, duplicated or reordered
C39_MatchMeansAgreement ==
    /\ [](\A i \in DOMAIN node :
            is_leader(node[i]) =>
               \A p \in DOMAIN node[i].leadership.followers :
                  node[p].current_term = node[i].current_term
                     => AgreeUpTo(node[i], node[p], Replication(node[i], p).match_idx))
    /\ [][\A m \in Successes(msgs' \ msgs) :
             \A i \in DOMAIN node :
                (/\ m.dest = To(i) /\ is_leader(node'[i])
                 /\ node'[i].current_term = m.message.term)
                   => AgreeUpTo(node'[i], node'[m.from], m.message.match_idx)]_vars

\* a Leader has recorded a match for a peer of its term that was itself elected
\* in an earlier term: the peer held its own no-op at index 1, where the Leader
\* holds the no-op of its term, and has replaced it
C39_Witness ==
    \E i \in DOMAIN node :
        /\ is_leader(node[i])
        /\ get_term(node[i].log, 1) = Some(node[i].current_term)
        /\ \E p \in DOMAIN node[i].leadership.followers :
              /\ node[p].current_term = node[i].current_term
              /\ Replication(node[i], p).match_idx >= 1
              /\ \E e \in elected : e[2] = p /\ e[1] < node[i].current_term

\* C40: whenever leader() on a node returns (Some(L), T) with L different from
\* that node, node L was in the Leader state with current_term = T at an earlier
\* point of the execution: no node reports as leader of term T a peer that was
\* never elected in T
C40_ReportedLeaderWasElected ==
    \A i \in DOMAIN node :
        \A L \in leader(node[i])[1] :
            L # i => <<leader(node[i])[2], L>> \in elected

\* a Follower reports a peer as the leader of its term after that peer has been
\* deposed, and a request of an earlier term of that peer's is still deliverable
\* to another Follower of a later term
C40_Witness ==
    \E i \in DOMAIN node :
        /\ ~is_leader(node[i])
        /\ \E L \in leader(node[i])[1] :
              /\ L # i
              /\ ~(is_leader(node[L]) /\ node[L].current_term = node[i].current_term)
        /\ \E j \in DOMAIN node : \E m \in DeliverableTo(j, "AppendRequest") :
              /\ ~is_leader(node[j])
              /\ m.message.term < node[j].current_term

====
